---- MODULE Spec2Model ----
(***************************************************************************)
(* Model of the job orchestrator of the Word -> PDF assembly service:      *)
(* the in-memory job registry of web_app.py, the preview/confirm protocol  *)
(* (upload, convert_preview, progress) and the background worker           *)
(* _run_job_from_preview with process_from_file_list (core.py) inlined.    *)
(*                                                                         *)
(* The worker is a Python thread.  Every assignment to jobs[job_id][...]   *)
(* is one step of the worker: request handlers and other workers may run   *)
(* between any two of them.  Steps that touch only the worker's locals are *)
(* folded into the next step that writes the registry.                     *)
(***************************************************************************)
EXTENDS Integers, Sequences, FiniteSets, TLC

\* ------------------------------------------------------------------ bounds

\* Number of threads that call the native backend.
NumComThreads == 2

\* Largest number of documents in a resolved (preview) list.
MaxFiles == 2
\* Largest length of the index list a caller submits to /convert.
MaxOrderLen == 2
\* Largest number of per-document PDFs handed to merge_pdfs.
MaxPdfs == 2
\* Largest number of tokens in the stem of a filename given to
\* extract_page_number.
MaxNameLen == 6
\* Largest number of files given to sort_files_by_pages.
MaxSortLen == 3
\* Largest number of pages of a PDF handed to split_pdf_by_size
MaxPages == 11
\* Largest number of archives one bot user sends.
MaxZips == 3

\* ------------------------------------------------------------ the universe

\* Job ids the registry may hold (uuid4 values) and ids a request may name.
JobIds == {"j1"}
ReqIds == JobIds \cup {"jx"}
\* Logged-in users; "anon" is a request without a valid session cookie.
Users == {"u1", "u2"}
Callers == Users \cup {"anon"}
\* Callers that upload: by symmetry one logged-in user stands for all.
Uploaders == {"u1", "anon"}
\* Worker threads that Thread(...).start() may create.
Threads == {1, 2}

\* Document paths inside a work directory, in resolved (page) order.
AllPaths == <<"x/a.doc", "x/a.docx", "y/b.docx">>
Paths == {AllPaths[k] : k \in 1..Len(AllPaths)}

\* Path.name
Name(p) ==
  CASE p = "x/a.doc" -> "a.doc"
    [] p = "x/a.docx" -> "a.docx"
    [] p = "y/b.docx" -> "b.docx"
    [] OTHER -> "?"

\* Path.stem
Stem(p) ==
  CASE p = "x/a.doc" -> "a"
    [] p = "x/a.docx" -> "a"
    [] p = "y/b.docx" -> "b"
    [] OTHER -> "?"

Stems == {Stem(p) : p \in Paths}

\* Number of pages of the PDF a backend produces from a document.
PageCount(p) ==
  CASE p = "x/a.doc" -> 1
    [] p = "x/a.docx" -> 2
    [] p = "y/b.docx" -> 4
    [] OTHER -> 0

\* What one exploration covers: the number of workers that may be started, the
\* longest resolved list and the longest confirmed order.
OneWorker == [threads |-> 1, files |-> MaxFiles, order |-> MaxOrderLen]
\* Two workers racing on one job, each over a single document.
TwoWorkers == [threads |-> 2, files |-> 1, order |-> 1]

\* ------------------------------------------------------------------- state

VARIABLES
  jobs,     \* web_app.jobs: job id -> job record
  workers,  \* thread id -> locals and position of one _run_job_from_preview
  pdf_dir,  \* job id -> (stem -> source whose PDF is at work_dir/pdfs/stem.pdf)
  unit,     \* job id -> the job record as the last whole update left it
  resp,     \* the request handled by the last step, if any, and its response
  cap,      \* the scenario explored (never changes)
  tmp_dirs, \* the temporary working directories on disk
  call      \* the library call under study, if any: the function called, its
            \* arguments, its locals and its position

vars == <<jobs, workers, pdf_dir, unit, resp, cap, tmp_dirs, call>>

NoError == [kind |-> "none", names |-> <<>>]
NoResp ==
  [op |-> "none", job |-> "none", user |-> "none", order |-> <<>>,
   code |-> 0, body |-> <<>>]

\* The answer `code`, `body` to request `op` of caller u about job j.
Response(op, j, u, code, body) ==
  [op |-> op, job |-> j, user |-> u, order |-> <<>>, code |-> code, body |-> body]

\* The first n elements of s (s[:n]).
Take(s, n) == SubSeq(s, 1, IF Len(s) < n THEN Len(s) ELSE n)

\* Sequences over S of length lo..hi.
SeqsOf(S, lo, hi) == UNION {[1..n -> S] : n \in lo..hi}

\* Resolved lists an upload may produce: documents of the archive in page
\* order, the first one always among them, at most MaxFiles of them (or none
\* at all when the archive holds no document).
IsSubList(s) ==
  /\ s # <<>> => s[1] = AllPaths[1]
  /\ \A a, b \in 1..Len(s) : a < b =>
    \E x, y \in 1..Len(AllPaths) : x < y /\ AllPaths[x] = s[a] /\ AllPaths[y] = s[b]

PreviewLists == {s \in SeqsOf(Paths, 0, MaxFiles) : IsSubList(s)}

\* Index lists a caller may submit (an absent or non-list body counts as empty;
\* -1 and MaxFiles stand for entries outside every list).
RawOrders == SeqsOf(-1..MaxFiles, 0, MaxOrderLen)

\* One call progress_callback(current, total, name).
Call(current, total, name) == [current |-> current, total |-> total, name |-> name]

IdleWorker ==
  [pc |-> "idle", job |-> "none", order |-> <<>>, sorted_paths |-> <<>>,
   out_filename |-> "", user_id |-> "none",
   file_list |-> <<>>, i |-> 0, cb_current |-> 0, cb_name |-> "",
   pdf_files |-> <<>>, failed |-> <<>>, ok |-> FALSE, total_pages |-> 0,
   emsg |-> NoError,
   calls |-> <<>>, attempted |-> <<>>, results |-> <<>>, merged |-> <<>>,
   raised |-> "none", ended |-> "none"]

\* No library call is under study.
NoCall == [pc |-> "none"]

\* The service after start-up: an empty registry, no worker.
Start ==
  /\ jobs = [j \in {} |-> 0]
  /\ workers = [t \in Threads |-> IdleWorker]
  /\ pdf_dir = [j \in {} |-> 0]
  /\ unit = [j \in {} |-> 0]
  /\ resp = NoResp
  /\ tmp_dirs = {}

Init == Start /\ cap = OneWorker /\ call = NoCall

InitRace == Start /\ cap = TwoWorkers /\ call = NoCall

\* ------------------------------------------------------- request handlers

\* _make_preview_response: the record a new job starts with.
NewJob(sorted_files, out_filename, user_id) ==
  [stage |-> "preview", work_dir |-> "wd", sorted_file_paths |-> sorted_files,
   user_id |-> user_id, out_filename |-> out_filename,
   total |-> 0, current |-> 0, current_file |-> "", file_names |-> <<>>,
   total_pages |-> 0, done |-> FALSE, error |-> NoError, pdf_path |-> "none",
   filename |-> out_filename]

\* The preview of a resolved list: index and name of each entry.
PreviewFiles(sorted_files) ==
  [k \in 1..Len(sorted_files) |-> [index |-> k - 1, name |-> Name(sorted_files[k])]]

\* The status code POST /upload answers with: 401 without a session, 422 when
\* prepare_zip_for_preview finds no document in the archive.
UploadCode(u, sorted_files) ==
  IF u = "anon" THEN 401
  ELSE IF sorted_files = <<>> THEN 422
  ELSE 200

\* The status code POST /upload-folder answers with. The handler counts the
\* files it writes by their lower-cased extension (line 677); `miscased` says
\* that it wrote a document whose extension is not in lower case, which
\* get_all_word_files (rglob('*.doc'), rglob('*.docx')) does not find on a
\* case-sensitive file system, so that sorted_files does not hold it.
FolderCode(u, sorted_files, miscased) ==
  IF u = "anon" THEN 401
  ELSE IF sorted_files = <<>> /\ ~miscased THEN 422
  ELSE 200

\* The end of both upload handlers: with code 200 register a preview job and
\* keep its working directory "wd" (mkdtemp: core.py line 464, web_app.py line
\* 671); with code 422 remove the directory made for the rejected source
\* again (rmtree: lines 657, 683), which leaves the disk as it was.
Register(op, u, sorted_files, code) ==
  /\ IF code = 200
       THEN \E j \in JobIds \ DOMAIN jobs :
              LET rec == NewJob(sorted_files, "merged.pdf", u) IN
              /\ jobs' = [k \in DOMAIN jobs \cup {j} |->
                            IF k = j THEN rec ELSE jobs[k]]
              /\ pdf_dir' = [k \in DOMAIN jobs \cup {j} |->
                            IF k = j THEN [st \in Stems |-> "none"] ELSE pdf_dir[k]]
              /\ unit' = [k \in DOMAIN jobs \cup {j} |->
                            IF k = j THEN rec ELSE unit[k]]
              /\ resp' = Response(op, j, u, 200, PreviewFiles(sorted_files))
       ELSE /\ resp' = Response(op, "none", u, code, <<>>)
            /\ UNCHANGED <<jobs, pdf_dir, unit>>
  /\ tmp_dirs' = IF code = 200 THEN tmp_dirs \cup {"wd"} ELSE tmp_dirs
  /\ UNCHANGED <<workers, cap, call>>

\* POST /upload: unpack the archive, harvest and resolve, register a preview job.
upload(u, sorted_files) ==
  /\ Len(sorted_files) <= cap.files
  /\ Register("upload", u, sorted_files, UploadCode(u, sorted_files))

\* POST /upload-folder: write the documents sent, harvest and resolve, register
\* a preview job.
upload_folder(u, sorted_files, miscased) ==
  /\ Len(sorted_files) <= cap.files
  /\ Register("upload_folder", u, sorted_files, FolderCode(u, sorted_files, miscased))

\* order = [int(x) for x in order if ... 0 <= int(x) < len(sorted_paths)]
FilterOrder(order, n) == SelectSeq(order, LAMBDA x : 0 <= x /\ x < n)

\* A handler that tests the submitted list only before filtering it.
ConvertCode_unfiltered(u, j, order) ==
  IF u = "anon" THEN 401
  ELSE IF j \notin DOMAIN jobs THEN 404
  ELSE IF jobs[j].stage # "preview" THEN 400
  ELSE IF jobs[j].user_id # u THEN 403
  ELSE IF order = <<>> THEN 400
  ELSE 200

\* The status code convert_preview answers with.
ConvertCode(u, j, order) ==
  IF u = "anon" THEN 401
  ELSE IF j \notin DOMAIN jobs THEN 404
  ELSE IF jobs[j].stage # "preview" THEN 400
  ELSE IF jobs[j].user_id # u THEN 403
  ELSE IF order = <<>> THEN 400
  ELSE IF FilterOrder(order, Len(jobs[j].sorted_file_paths)) = <<>> THEN 400
  ELSE 200

\* The thread Thread(...) creates next: the first one not yet started.
FreeThread == CHOOSE t \in Threads :
                /\ workers[t].pc = "idle"
                /\ \A s \in Threads : workers[s].pc = "idle" => t <= s

\* Whether convert_preview gets as far as reading the request body (line 702).
ReadsBody(u, j) ==
  /\ u # "anon"
  /\ j \in DOMAIN jobs
  /\ jobs[j].stage = "preview"
  /\ jobs[j].user_id = u

\* POST /convert/{job_id}: confirm the order and start the conversion worker.
convert_preview(u, j, order) ==
  LET code == ConvertCode(u, j, order) IN
  /\ resp' = [Response("convert", j, u, code, <<>>) EXCEPT !.order = order]
  /\ IF code = 200
       THEN /\ Cardinality({t \in Threads : workers[t].pc # "idle"}) < cap.threads
            /\ Len(FilterOrder(order, Len(jobs[j].sorted_file_paths))) <= cap.order
            /\ workers' = [workers EXCEPT ![FreeThread] =
                 [IdleWorker EXCEPT
                    !.pc = "l197", !.job = j,
                    !.order = FilterOrder(order, Len(jobs[j].sorted_file_paths)),
                    !.sorted_paths = jobs[j].sorted_file_paths,
                    !.out_filename = jobs[j].out_filename,
                    !.user_id = u]]
       ELSE UNCHANGED workers
  /\ UNCHANGED <<jobs, pdf_dir, unit, cap, tmp_dirs, call>>

\* The dict GET /progress/{job_id} returns.
Snapshot(rec) ==
  [stage |-> rec.stage, total |-> rec.total, current |-> rec.current,
   current_file |-> rec.current_file, file_names |-> rec.file_names,
   total_pages |-> rec.total_pages, error |-> rec.error, done |-> rec.done]

\* A status query that is answered only while no worker is running.
progress_waits(j) ==
  /\ \A t \in Threads : workers[t].pc \in {"idle", "end"}
  /\ resp' = IF j \in DOMAIN jobs
               THEN Response("progress", j, "none", 200, <<Snapshot(jobs[j])>>)
               ELSE Response("progress", j, "none", 404, <<>>)
  /\ UNCHANGED <<jobs, workers, pdf_dir, unit, cap, tmp_dirs, call>>

\* GET /progress/{job_id}
progress(j) ==
  /\ resp' = IF j \in DOMAIN jobs
               THEN Response("progress", j, "none", 200, <<Snapshot(jobs[j])>>)
               ELSE Response("progress", j, "none", 404, <<>>)
  /\ UNCHANGED <<jobs, workers, pdf_dir, unit, cap, tmp_dirs, call>>

\* A result handler that serves every logged-in caller.
DownloadCode_any_user(u, j, exists) ==
  IF u = "anon" THEN 401
  ELSE IF j \notin DOMAIN jobs THEN 404
  ELSE IF ~jobs[j].done \/ jobs[j].pdf_path = "none" THEN 400
  ELSE IF ~exists THEN 404
  ELSE 200

\* A result handler that looks at the artifact path only.
DownloadCode_path_only(u, j, exists) ==
  IF u = "anon" THEN 401
  ELSE IF j \notin DOMAIN jobs THEN 404
  ELSE IF jobs[j].user_id # u THEN 403
  ELSE IF jobs[j].pdf_path = "none" THEN 400
  ELSE IF ~exists THEN 404
  ELSE 200

\* The status code download answers with; `exists` is path.exists() at line
\* 751. A job that is not in the registry has no row in the durable store
\* either (save_job runs only for registered jobs): get_job returns None.
DownloadCode(u, j, exists) ==
  IF u = "anon" THEN 401
  ELSE IF j \notin DOMAIN jobs THEN 404
  ELSE IF jobs[j].user_id # u THEN 403
  ELSE IF ~jobs[j].done \/ jobs[j].pdf_path = "none" THEN 400
  ELSE IF ~exists THEN 404
  ELSE 200

\* GET /download/{job_id}: the artifact, or an error.
download(u, j, exists) ==
  LET code == DownloadCode(u, j, exists) IN
  /\ resp' = Response("download", j, u, code,
                       IF code = 200 THEN <<jobs[j].pdf_path>> ELSE <<>>)
  /\ UNCHANGED <<jobs, workers, pdf_dir, unit, cap, tmp_dirs, call>>

\* ------------------------------------------------------------- the worker

\* A worker that converts each selected document once, in the order of the
\* first mention.
FileList_once(order, sorted_paths) ==
  LET f == FilterOrder(order, Len(sorted_paths))
      first == SelectSeq([k \in 1..Len(f) |-> <<k, f[k]>>],
                         LAMBDA e : \A m \in 1..(e[1] - 1) : f[m] # e[2]) IN
  [k \in 1..Len(first) |-> sorted_paths[first[k][2] + 1]]

\* file_list = [Path(sorted_paths[i]) for i in order if 0 <= i < len(sorted_paths)]
FileList(order, sorted_paths) ==
  LET f == FilterOrder(order, Len(sorted_paths)) IN
  [k \in 1..Len(f) |-> sorted_paths[f[k] + 1]]

\* A callback that confuses the merge sentinel with a document index.
CbStage_swapped(current) ==
  IF current = 0 THEN "found"
  ELSE IF current = -1 THEN "convert"
  ELSE "merge"

\* The stage the progress callback sets for a given `current`.
CbStage(current) ==
  IF current = 0 THEN "found"
  ELSE IF current = -1 THEN "merge"
  ELSE "convert"

\* A loop that walks the resolved list in its inferred order.
LoopDoc_inferred(w) ==
  w.sorted_paths[IF w.i <= Len(w.sorted_paths) THEN w.i ELSE Len(w.sorted_paths)]

\* The document the conversion loop handles in iteration w.i.
LoopDoc(w) == w.file_list[w.i]

\* What one pass of the loop body can come to: the source file is missing,
\* convert_word_to_pdf returns False, returns True having written the PDF,
\* returns True with nothing written, or lets an exception escape (an OSError
\* of subprocess.run other than FileNotFoundError, a failing open() of the
\* source in the cloud backend, a failing CoInitialize()).
ConvertOutcomes == {"missing", "false", "true_written", "true_nofile", "raise"}

\* merge_pdfs: (ok, total_pages) for the listed PDFs given what is on disk;
\* `fails` says that reading an input or writing the artifact raised.
RECURSIVE SumPages(_, _)
SumPages(pdf_files, disk) ==
  IF pdf_files = <<>> THEN 0
  ELSE (IF disk[Head(pdf_files)] = "none" THEN 0
        ELSE PageCount(disk[Head(pdf_files)]))
       + SumPages(Tail(pdf_files), disk)

merge_pdfs(pdf_files, disk, fails) ==
  IF fails THEN <<FALSE, 0>> ELSE <<TRUE, SumPages(pdf_files, disk)>>

\* "Не удалось создать PDF." + " Не конвертированы: " + ", ".join(failed[:5])
NotOkError(failed) == [kind |-> "not_ok", names |-> Take(failed, 5)]
\* "Нет файлов для конвертации"
NoFilesError == [kind |-> "no_files", names |-> <<>>]
\* str(e) of the exception caught at the top of the worker
ExcError == [kind |-> "exception", names |-> <<>>]

\* The worker t writes one field of its job record.
Write(t, field, value) ==
  jobs' = [jobs EXCEPT ![workers[t].job][field] = value]

\* The update the worker is in the middle of is complete after this step.
Commit(t) ==
  unit' = [unit EXCEPT ![workers[t].job] = jobs'[workers[t].job]]

Goto(t, w) == workers' = [workers EXCEPT ![t] = w]

\* The except clause of the worker, entered from a step that raised: line 243.
Raise(t, where) ==
  /\ Write(t, "stage", "error")
  /\ Goto(t, [workers[t] EXCEPT !.pc = "err_msg", !.emsg = ExcError,
                                !.raised = where, !.ended = "error"])

\* Lines 197-204: build the file list; reject an empty one, else "processing".
run_l197(t) ==
  LET w == workers[t]
      fl == FileList(w.order, w.sorted_paths) IN
  /\ w.pc = "l197"
  /\ IF fl = <<>>
       THEN /\ Write(t, "stage", "error")
            /\ Goto(t, [w EXCEPT !.pc = "err_msg", !.emsg = NoFilesError,
                                 !.file_list = fl, !.ended = "error"])
       ELSE /\ Write(t, "stage", "processing")
            /\ Goto(t, [w EXCEPT !.pc = "l205", !.file_list = fl])
  /\ resp' = NoResp
  /\ UNCHANGED <<pdf_dir, unit, cap, tmp_dirs, call>>

\* Line 205
run_l205(t) ==
  /\ workers[t].pc = "l205"
  /\ Write(t, "total", Len(workers[t].file_list))
  /\ Goto(t, [workers[t] EXCEPT !.pc = "l206"])
  /\ resp' = NoResp
  /\ UNCHANGED <<pdf_dir, unit, cap, tmp_dirs, call>>

\* Line 206
run_l206(t) ==
  /\ workers[t].pc = "l206"
  /\ Write(t, "current", 0)
  /\ Goto(t, [workers[t] EXCEPT !.pc = "l207"])
  /\ resp' = NoResp
  /\ UNCHANGED <<pdf_dir, unit, cap, tmp_dirs, call>>

\* Line 207, then the call of process_from_file_list up to its first
\* progress_callback(0, total, "").
run_l207(t) ==
  /\ workers[t].pc = "l207"
  /\ Write(t, "file_names", <<>>)
  /\ Commit(t)
  /\ Goto(t, [workers[t] EXCEPT
               !.pc = "cb210", !.cb_current = 0, !.cb_name = "",
               !.calls = <<Call(0, Len(workers[t].file_list), "")>>])
  /\ resp' = NoResp
  /\ UNCHANGED <<pdf_dir, cap, tmp_dirs, call>>

\* cb, line 210
cb_l210(t) ==
  /\ workers[t].pc = "cb210"
  /\ Write(t, "total", Len(workers[t].file_list))
  /\ Goto(t, [workers[t] EXCEPT !.pc = "cb211"])
  /\ resp' = NoResp
  /\ UNCHANGED <<pdf_dir, unit, cap, tmp_dirs, call>>

\* cb, line 211
cb_l211(t) ==
  /\ workers[t].pc = "cb211"
  /\ Write(t, "current", workers[t].cb_current)
  /\ Goto(t, [workers[t] EXCEPT !.pc = "cb212"])
  /\ resp' = NoResp
  /\ UNCHANGED <<pdf_dir, unit, cap, tmp_dirs, call>>

\* cb, line 212
cb_l212(t) ==
  /\ workers[t].pc = "cb212"
  /\ Write(t, "current_file", workers[t].cb_name)
  /\ Goto(t, [workers[t] EXCEPT !.pc = "cb213"])
  /\ resp' = NoResp
  /\ UNCHANGED <<pdf_dir, unit, cap, tmp_dirs, call>>

\* A callback that never records the name it is given.
CbAppends_never(name) == FALSE

\* cb, line 213: `if name and name != "merge"`
CbAppends(name) == name # "" /\ name # "merge"

\* cb, lines 213-214
cb_l213(t) ==
  LET w == workers[t] IN
  /\ w.pc = "cb213"
  /\ IF CbAppends(w.cb_name)
       THEN Write(t, "file_names", Append(jobs[w.job].file_names, w.cb_name))
       ELSE UNCHANGED jobs
  /\ Goto(t, [w EXCEPT !.pc = "cb215"])
  /\ resp' = NoResp
  /\ UNCHANGED <<pdf_dir, unit, cap, tmp_dirs, call>>

\* cb, lines 215-220, and the return to the caller in process_from_file_list.
cb_l215(t) ==
  LET w == workers[t] IN
  /\ w.pc = "cb215"
  /\ Write(t, "stage", CbStage(w.cb_current))
  /\ Commit(t)
  /\ Goto(t, [w EXCEPT !.pc = IF w.cb_current = 0 THEN "p530"
                              ELSE IF w.cb_current = -1 THEN "p552"
                              ELSE "p537"])
  /\ resp' = NoResp
  /\ UNCHANGED <<pdf_dir, cap, tmp_dirs, call>>

\* process_from_file_list, lines 530-536: create pdfs/, enter the loop.
pffl_mkdir(t, raises) ==
  LET w == workers[t] IN
  /\ w.pc = "p530"
  /\ IF raises
       THEN Raise(t, "mkdir")
       ELSE /\ Goto(t, [w EXCEPT !.pc = "cb210", !.i = 1, !.cb_current = 1,
                                 !.cb_name = Name(w.file_list[1]),
                                 !.calls = Append(w.calls,
                                   Call(1, Len(w.file_list), Name(w.file_list[1])))])
            /\ UNCHANGED jobs
  /\ resp' = NoResp
  /\ UNCHANGED <<pdf_dir, unit, cap, tmp_dirs, call>>

\* Whether convert_word_to_pdf was called and returned True (line 543).
Reported(out) == out \in {"true_written", "true_nofile"}

\* A loop body that trusts the file on disk alone.
Converted_on_disk(out, existed) ==
  out = "true_written" \/ (out \in {"true_nofile", "false"} /\ existed)

\* Whether the loop body counts the document as converted.
Converted(out, existed) ==
  out = "true_written" \/ (out = "true_nofile" /\ existed)

\* A pipeline that merges whatever the loop produced, even nothing.
AfterLoop_always(pdf_files) == "merge"

\* Lines 548-551, after the loop: return False when nothing was converted,
\* else announce the merge.
AfterLoop(pdf_files) == IF pdf_files = <<>> THEN "return" ELSE "merge"

\* process_from_file_list, lines 537-551: one pass of the loop body for the
\* document announced by the last callback, then either the next callback
\* (the next document, or "merge" after the last one) or the return at 549.
pffl_convert(t, out) ==
  LET w == workers[t]
      wf == LoopDoc(w)
      pdf_path == Stem(wf)
      good == Converted(out, pdf_dir[w.job][pdf_path] # "none")
      pdf_files == IF good THEN Append(w.pdf_files, pdf_path) ELSE w.pdf_files
      failed == IF good THEN w.failed ELSE Append(w.failed, Name(wf))
      next == IF w.i < Len(w.file_list) THEN "next" ELSE AfterLoop(pdf_files)
      seen == [w EXCEPT !.attempted = Append(w.attempted, wf)] IN
  /\ w.pc = "p537"
  /\ pdf_dir' = IF out = "true_written"
                  THEN [pdf_dir EXCEPT ![w.job][pdf_path] = wf]
                  ELSE pdf_dir
  /\ IF out = "raise"
       THEN /\ Write(t, "stage", "error")
            /\ Goto(t, [seen EXCEPT !.pc = "err_msg", !.emsg = ExcError,
                                    !.raised = "convert", !.ended = "error"])
       ELSE /\ UNCHANGED jobs
            /\ Goto(t, [seen EXCEPT
                 !.results = Append(w.results, good),
                 !.pdf_files = pdf_files,
                 !.failed = failed,
                 !.i = IF next = "next" THEN w.i + 1 ELSE w.i,
                 !.pc = IF next = "return" THEN "l226" ELSE "cb210",
                 !.cb_current = CASE next = "next" -> w.i + 1
                                  [] next = "merge" -> -1
                                  [] OTHER -> w.cb_current,
                 !.cb_name = CASE next = "next" -> Name(w.file_list[w.i + 1])
                               [] next = "merge" -> "merge"
                               [] OTHER -> w.cb_name,
                 !.calls = CASE next = "next" ->
                                  Append(w.calls, Call(w.i + 1, Len(w.file_list),
                                                       Name(w.file_list[w.i + 1])))
                             [] next = "merge" ->
                                  Append(w.calls, Call(-1, Len(w.file_list), "merge"))
                             [] OTHER -> w.calls])
  /\ resp' = NoResp
  /\ UNCHANGED <<unit, cap, tmp_dirs, call>>

\* process_from_file_list, lines 552-553, and the test at line 225.
pffl_merge(t, fails) ==
  LET w == workers[t]
      r == merge_pdfs(w.pdf_files, pdf_dir[w.job], fails) IN
  /\ w.pc = "p552"
  /\ Goto(t, [w EXCEPT !.merged = w.pdf_files, !.ok = r[1], !.total_pages = r[2],
                       !.pc = IF r[1] THEN "l229" ELSE "l226"])
  /\ resp' = NoResp
  /\ UNCHANGED <<jobs, pdf_dir, unit, cap, tmp_dirs, call>>

\* Line 226
run_l226(t) ==
  /\ workers[t].pc = "l226"
  /\ Write(t, "stage", "error")
  /\ Goto(t, [workers[t] EXCEPT !.pc = "l227", !.ended = "error"])
  /\ resp' = NoResp
  /\ UNCHANGED <<pdf_dir, unit, cap, tmp_dirs, call>>

\* Lines 227-228: the message, and the return.
run_l227(t) ==
  /\ workers[t].pc = "l227"
  /\ Write(t, "error", NotOkError(workers[t].failed))
  /\ Commit(t)
  /\ Goto(t, [workers[t] EXCEPT !.pc = "end"])
  /\ resp' = NoResp
  /\ UNCHANGED <<pdf_dir, cap, tmp_dirs, call>>

\* Lines 229-236: copy the artifact into the user's storage, save_job, and
\* record the path; get_user_storage_dir, copy2 and save_job may raise.
run_l229(t, raises) ==
  /\ workers[t].pc = "l229"
  /\ IF raises
       THEN Raise(t, "store")
       ELSE /\ Write(t, "pdf_path", "stored")
            /\ Goto(t, [workers[t] EXCEPT !.pc = "l237"])
  /\ resp' = NoResp
  /\ UNCHANGED <<pdf_dir, unit, cap, tmp_dirs, call>>

\* Line 237
run_l237(t) ==
  /\ workers[t].pc = "l237"
  /\ Write(t, "stage", "done")
  /\ Goto(t, [workers[t] EXCEPT !.pc = "l238", !.ended = "done"])
  /\ resp' = NoResp
  /\ UNCHANGED <<pdf_dir, unit, cap, tmp_dirs, call>>

\* Line 238
run_l238(t) ==
  /\ workers[t].pc = "l238"
  /\ Write(t, "total_pages", workers[t].total_pages)
  /\ Goto(t, [workers[t] EXCEPT !.pc = "l239"])
  /\ resp' = NoResp
  /\ UNCHANGED <<pdf_dir, unit, cap, tmp_dirs, call>>

\* Line 239
run_l239(t) ==
  /\ workers[t].pc = "l239"
  /\ Write(t, "filename", "stored.pdf")
  /\ Goto(t, [workers[t] EXCEPT !.pc = "l240"])
  /\ resp' = NoResp
  /\ UNCHANGED <<pdf_dir, unit, cap, tmp_dirs, call>>

\* Line 240
run_l240(t) ==
  /\ workers[t].pc = "l240"
  /\ Write(t, "done", TRUE)
  /\ Commit(t)
  /\ Goto(t, [workers[t] EXCEPT !.pc = "end"])
  /\ resp' = NoResp
  /\ UNCHANGED <<pdf_dir, cap, tmp_dirs, call>>

\* Line 244 (and line 200): the error message.
run_err_msg(t) ==
  /\ workers[t].pc = "err_msg"
  /\ Write(t, "error", workers[t].emsg)
  /\ Goto(t, [workers[t] EXCEPT !.pc = "err_done"])
  /\ resp' = NoResp
  /\ UNCHANGED <<pdf_dir, unit, cap, tmp_dirs, call>>

\* Line 245 (and line 201): the done flag.
run_err_done(t) ==
  /\ workers[t].pc = "err_done"
  /\ Write(t, "done", TRUE)
  /\ Commit(t)
  /\ Goto(t, [workers[t] EXCEPT !.pc = "end"])
  /\ resp' = NoResp
  /\ UNCHANGED <<pdf_dir, cap, tmp_dirs, call>>

Next ==
  \/ \E u \in Uploaders, files \in PreviewLists :
       \* a request rejected before its source is read stands for every source
       /\ u # "anon" \/ files = <<>>
       /\ upload(u, files)
  \/ \E u \in Uploaders, files \in PreviewLists, miscased \in BOOLEAN :
       /\ u # "anon" \/ files = <<>>
       \* a mis-cased document makes a difference only when nothing is found
       /\ miscased => u # "anon" /\ files = <<>>
       /\ upload_folder(u, files, miscased)
  \/ \E u \in Callers, j \in ReqIds, order \in RawOrders :
       \* a request rejected before its body is read stands for every body
       /\ ReadsBody(u, j) \/ order = <<>>
       /\ convert_preview(u, j, order)
  \/ \E j \in ReqIds : progress(j)
  \/ \E u \in Callers, j \in ReqIds, exists \in BOOLEAN :
       \* the file is looked for only by a request that gets to line 751
       /\ exists \/ DownloadCode(u, j, TRUE) = 200
       /\ download(u, j, exists)
  \/ \E t \in Threads : run_l197(t)
  \/ \E t \in Threads : run_l205(t)
  \/ \E t \in Threads : run_l206(t)
  \/ \E t \in Threads : run_l207(t)
  \/ \E t \in Threads : cb_l210(t)
  \/ \E t \in Threads : cb_l211(t)
  \/ \E t \in Threads : cb_l212(t)
  \/ \E t \in Threads : cb_l213(t)
  \/ \E t \in Threads : cb_l215(t)
  \/ \E t \in Threads, raises \in BOOLEAN : pffl_mkdir(t, raises)
  \/ \E t \in Threads, out \in ConvertOutcomes : pffl_convert(t, out)
  \/ \E t \in Threads, fails \in BOOLEAN : pffl_merge(t, fails)
  \/ \E t \in Threads : run_l226(t)
  \/ \E t \in Threads : run_l227(t)
  \/ \E t \in Threads, raises \in BOOLEAN : run_l229(t, raises)
  \/ \E t \in Threads : run_l237(t)
  \/ \E t \in Threads : run_l238(t)
  \/ \E t \in Threads : run_l239(t)
  \/ \E t \in Threads : run_l240(t)
  \/ \E t \in Threads : run_err_msg(t)
  \/ \E t \in Threads : run_err_done(t)

Spec == Init /\ [][Next]_vars

\* One step of worker thread t.
WorkerStep(t) ==
  \/ run_l197(t) \/ run_l205(t) \/ run_l206(t) \/ run_l207(t)
  \/ cb_l210(t) \/ cb_l211(t) \/ cb_l212(t) \/ cb_l213(t) \/ cb_l215(t)
  \/ \E raises \in BOOLEAN : pffl_mkdir(t, raises)
  \/ \E out \in ConvertOutcomes : pffl_convert(t, out)
  \/ \E fails \in BOOLEAN : pffl_merge(t, fails)
  \/ run_l226(t) \/ run_l227(t)
  \/ \E raises \in BOOLEAN : run_l229(t, raises)
  \/ run_l237(t) \/ run_l238(t) \/ run_l239(t) \/ run_l240(t)
  \/ run_err_msg(t) \/ run_err_done(t)

\* A started thread keeps being scheduled, and every external call returns.
SpecFair == Spec /\ \A t \in Threads : WF_vars(WorkerStep(t))

SpecRace == InitRace /\ [][Next]_vars

\* The service as one logged-in user sees it who uploads an archive of one
\* document and sends confirm requests for it, two threads being there to
\* start.
NextConfirm ==
  \/ upload("u1", <<AllPaths[1]>>)
  \/ \E j \in JobIds, order \in {<<>>, <<0>>} : convert_preview("u1", j, order)
  \/ \E t \in Threads : WorkerStep(t)

SpecConfirm == InitRace /\ [][NextConfirm]_vars

\* ------------------------------------------------- convert_word_to_pdf

\* The state of the orchestrator, which the conversion backends never touch.
web == <<jobs, workers, pdf_dir, unit, resp, cap, tmp_dirs>>

\* What a backend can come to: it returns True, returns False, or lets an
\* exception escape (CoInitialize in _convert_word_win, open() of the source
\* in _convert_word_graph, an OSError of subprocess.run other than
\* FileNotFoundError or a failing shutil.move in _convert_word_libre).
BackendOutcomes == {"true", "false", "raise"}

\* The MS_GRAPH_* variables of the environment: set (non-empty) or not.
GraphEnvs ==
  [client_id : BOOLEAN, client_secret : BOOLEAN, refresh_token : BOOLEAN,
   tenant_id : BOOLEAN, user_id : BOOLEAN]

\* _graph_configured()
_graph_configured(env) ==
  IF ~env.client_id \/ ~env.client_secret THEN FALSE
  ELSE IF env.refresh_token THEN TRUE
  ELSE env.tenant_id /\ env.user_id

\* `sys.platform == "win32" and not use_libreoffice`
NativeOnly(c) == c.win32 /\ ~c.use_libreoffice

\* A convert_word_to_pdf that goes on to LibreOffice whatever the cloud said.
AfterGraph_always(out) == "l401"

\* Lines 398-401 after _convert_word_graph came to `out`: return True, fall
\* back to LibreOffice, or pass the exception on.
AfterGraph(out) ==
  CASE out = "true" -> "returned"
    [] out = "false" -> "l401"
    [] OTHER -> "raised"

\* A call of convert_word_to_pdf about to start, for every platform, override
\* and environment.
NewCalls ==
  [pc : {"l395"}, win32 : BOOLEAN, use_libreoffice : BOOLEAN, env : GraphEnvs,
   tried : {<<>>}, outcomes : {<<>>}, result : {"none"}]

InitConvert == Start /\ cap = OneWorker /\ call \in NewCalls

\* The call has tried `backend`, which came to `out`.
Tried(backend, out) ==
  [call EXCEPT !.tried = Append(call.tried, backend),
               !.outcomes = Append(call.outcomes, out)]

\* Lines 395-396: the native backend, and nothing after it.
cw_win(out) ==
  /\ call.pc = "l395" /\ NativeOnly(call)
  /\ call' = [Tried("win", out) EXCEPT
                !.pc = IF out = "raise" THEN "raised" ELSE "returned",
                !.result = out]
  /\ UNCHANGED web

\* Lines 397-400: the cloud backend, when configured.
cw_graph(out) ==
  /\ call.pc = "l395" /\ ~NativeOnly(call) /\ _graph_configured(call.env)
  /\ call' = [Tried("graph", out) EXCEPT
                !.pc = AfterGraph(out),
                !.result = IF AfterGraph(out) = "l401" THEN "none" ELSE out]
  /\ UNCHANGED web

\* Line 401: the local office suite, when the cloud backend is not configured
\* or has returned False.
cw_libre(out) ==
  /\ \/ call.pc = "l401"
     \/ call.pc = "l395" /\ ~NativeOnly(call) /\ ~_graph_configured(call.env)
  /\ call' = [Tried("libre", out) EXCEPT
                !.pc = IF out = "raise" THEN "raised" ELSE "returned",
                !.result = out]
  /\ UNCHANGED web

NextConvert ==
  \/ \E out \in BackendOutcomes : cw_win(out)
  \/ \E out \in BackendOutcomes : cw_graph(out)
  \/ \E out \in BackendOutcomes : cw_libre(out)

SpecConvert == InitConvert /\ [][NextConvert]_vars

\* --------------------------------------------------- _convert_word_win

ComThreads == 1..NumComThreads

\* A thread outside _convert_word_win. `result` is what its last call came to,
\* `export` the export call of lines 173, 180, 186 that went through (0: none),
\* `tried` the export calls made, `closed` whether doc.Close(SaveChanges=False)
\* of line 187 has returned.
IdleCom == [pc |-> "idle", result |-> "none", export |-> 0, tried |-> <<>>,
            closed |-> FALSE]

\* _word_com_lock is free (0) and no thread is in the backend.
InitCom ==
  /\ Start /\ cap = OneWorker
  /\ call = [lock |-> 0, th |-> [t \in ComThreads |-> IdleCom]]

\* A lock that lets every thread in.
CanAcquire_always(lock) == TRUE

\* threading.Lock: acquire succeeds only on a free lock.
CanAcquire(lock) == lock = 0

\* Thread t moves on inside the backend.
ComStep(t, rec) ==
  /\ call' = [call EXCEPT !.th[t] = rec]
  /\ UNCHANGED web

\* A thread calls _convert_word_win (again).
cww_call(t) ==
  /\ call.th[t].pc \in {"idle", "returned", "raised"}
  /\ ComStep(t, [IdleCom EXCEPT !.pc = "l151"])

\* Lines 151-156: without pywin32 return False.
cww_import(t, fails) ==
  /\ call.th[t].pc = "l151"
  /\ ComStep(t, IF fails THEN [call.th[t] EXCEPT !.pc = "returned", !.result = "false"]
                         ELSE [call.th[t] EXCEPT !.pc = "l157"])

\* Line 157: `with _word_com_lock` blocks until the lock is free, then takes it.
cww_acquire(t) ==
  /\ call.th[t].pc = "l157"
  /\ CanAcquire(call.lock)
  /\ call' = [call EXCEPT !.lock = t, !.th[t].pc = "l158"]
  /\ UNCHANGED web

\* Line 158: CoInitialize(); when it raises the `with` releases the lock and
\* the exception leaves the function.
cww_coinit(t, raises) ==
  /\ call.th[t].pc = "l158"
  /\ call' = IF raises
              THEN [call EXCEPT !.lock = 0, !.th[t].pc = "raised",
                               !.th[t].result = "raise"]
              ELSE [call EXCEPT !.th[t].pc = "l160"]
  /\ UNCHANGED web

\* Lines 160-164: start the host (a failing Visible is ignored); when Dispatch
\* raises, the outer except (198-200) returns False.
cww_dispatch(t, raises) ==
  /\ call.th[t].pc = "l160"
  /\ ComStep(t, IF raises THEN [call.th[t] EXCEPT !.pc = "l203", !.result = "false"]
                          ELSE [call.th[t] EXCEPT !.pc = "l166"])

\* Lines 166-171: open the document; when it raises, the inner except
\* (189-195) returns False.
cww_open(t, raises) ==
  /\ call.th[t].pc = "l166"
  /\ ComStep(t, IF raises THEN [call.th[t] EXCEPT !.pc = "l197", !.result = "false"]
                          ELSE [call.th[t] EXCEPT !.pc = "l173"])

\* A backend that makes the next export call whether or not the one before
\* it went through.
AfterExport_all(k, raises) ==
  CASE k = 1 -> "l180"
    [] k = 2 -> "l186"
    [] OTHER -> IF raises THEN "l197" ELSE "l187"

\* Lines 172-186: where the k-th export call leads: to the close of line 187
\* when it returns, to the next export call (the handlers of lines 178 and
\* 185) or to the inner except of line 189 when it raises.
AfterExport(k, raises) ==
  CASE ~raises -> "l187"
    [] k = 1 -> "l180"
    [] k = 2 -> "l186"
    [] OTHER -> "l197"

\* Lines 173-177: ExportAsFixedFormat, positional.
cww_export1(t, raises) ==
  /\ call.th[t].pc = "l173"
  /\ ComStep(t, [call.th[t] EXCEPT !.pc = AfterExport(1, raises),
                                  !.tried = Append(@, 1),
                                  !.export = IF raises THEN @ ELSE 1])

\* Lines 180-184: ExportAsFixedFormat, by keyword.
cww_export2(t, raises) ==
  /\ call.th[t].pc = "l180"
  /\ ComStep(t, [call.th[t] EXCEPT !.pc = AfterExport(2, raises),
                                  !.tried = Append(@, 2),
                                  !.export = IF raises THEN @ ELSE 2])

\* Line 186: SaveAs; when it raises, the inner except returns False.
cww_export3(t, raises) ==
  /\ call.th[t].pc = "l186"
  /\ ComStep(t, [call.th[t] EXCEPT !.pc = AfterExport(3, raises),
                                  !.tried = Append(@, 3),
                                  !.export = IF raises THEN @ ELSE 3,
                                  !.result = IF raises THEN "false" ELSE @])

\* Lines 187-188: close without saving and return True; when Close raises,
\* the inner except returns False.
cww_close(t, raises) ==
  /\ call.th[t].pc = "l187"
  /\ ComStep(t, [call.th[t] EXCEPT !.pc = "l197",
                                  !.closed = ~raises,
                                  !.result = IF raises THEN "false" ELSE "true"])

\* Line 197: word.Quit() in the finally; when it raises, the outer except
\* (198-200) returns False in place of the pending result.
cww_quit(t, raises) ==
  /\ call.th[t].pc = "l197"
  /\ ComStep(t, [call.th[t] EXCEPT !.pc = "l203",
                                  !.result = IF raises THEN "false" ELSE @])

\* Lines 201-205: CoUninitialize() (a failure is ignored), the `with`
\* releases the lock, the function returns.
cww_uninit(t) ==
  /\ call.th[t].pc = "l203"
  /\ call' = [call EXCEPT !.lock = 0, !.th[t].pc = "returned"]
  /\ UNCHANGED web

NextCom ==
  \/ \E t \in ComThreads : cww_call(t)
  \/ \E t \in ComThreads, fails \in BOOLEAN : cww_import(t, fails)
  \/ \E t \in ComThreads : cww_acquire(t)
  \/ \E t \in ComThreads, raises \in BOOLEAN : cww_coinit(t, raises)
  \/ \E t \in ComThreads, raises \in BOOLEAN : cww_dispatch(t, raises)
  \/ \E t \in ComThreads, raises \in BOOLEAN : cww_open(t, raises)
  \/ \E t \in ComThreads, raises \in BOOLEAN : cww_export1(t, raises)
  \/ \E t \in ComThreads, raises \in BOOLEAN : cww_export2(t, raises)
  \/ \E t \in ComThreads, raises \in BOOLEAN : cww_export3(t, raises)
  \/ \E t \in ComThreads, raises \in BOOLEAN : cww_close(t, raises)
  \/ \E t \in ComThreads, raises \in BOOLEAN : cww_quit(t, raises)
  \/ \E t \in ComThreads : cww_uninit(t)

SpecCom == InitCom /\ [][NextCom]_vars

\* --------------------------------------------------- _convert_word_graph

\* Line 268: `refresh and client_id and client_secret`, refresh stripped.
RefreshFlow(e) == e.refresh_token = "tok" /\ e.client_id /\ e.client_secret

\* Line 289 negated: `all((tenant, client_id, client_secret))`.
ClientFlow(e) == e.tenant_id /\ e.client_id /\ e.client_secret

\* A call of _convert_word_graph about to start, for every environment in
\* which _graph_configured() holds (convert_word_to_pdf calls it only then,
\* line 397). MS_GRAPH_REFRESH_TOKEN is unset or empty, blank (truthy, but
\* empty once stripped) or a token; the other variables are set or not.
InitGraph ==
  /\ Start /\ cap = OneWorker
  /\ call \in
       {g \in [pc : {"l326"},
               env : [client_id : BOOLEAN, client_secret : BOOLEAN,
                      refresh_token : {"", " ", "tok"},
                      tenant_id : BOOLEAN, user_id : BOOLEAN],
               ext_ok : BOOLEAN, flows : {<<>>}, token : {FALSE}, puts : {0},
               deletes : {0}, delete_failed : {FALSE}, wrote : {FALSE},
               result : {"none"}] :
          _graph_configured([g.env EXCEPT !.refresh_token = (@ # "")])}

\* _get_graph_token has tried `flow`, which came to `out`: a token, None (no
\* access_token in the answer, an HTTP error, any other exception), or an
\* exception raised while the HTTPError handler reads and decodes the error
\* body (lines 283, 305).
Asked(flow, out) ==
  [call EXCEPT !.flows = Append(@, flow),
                !.token = (out = "token"),
                !.pc = IF out = "raise" THEN "raised" ELSE "l327",
                !.result = IF out = "raise" THEN "raise" ELSE @]

\* A _get_graph_token that goes on to the client-credentials flow when the
\* refresh-token flow has yielded no token.
AfterRefresh_falls_through(e, out) == out = "none" /\ ClientFlow(e)

\* Lines 278-287: whatever the refresh-token request came to is returned.
AfterRefresh(e, out) == FALSE

\* Lines 267-287: the refresh-token flow, when configured.
gt_refresh(out) ==
  /\ call.pc = "l326" /\ RefreshFlow(call.env)
  /\ call' = IF AfterRefresh(call.env, out)
                THEN [Asked("refresh", out) EXCEPT !.pc = "l288"]
                ELSE Asked("refresh", out)
  /\ UNCHANGED web

\* Lines 288-309: the client-credentials flow, when the refresh-token flow is
\* not configured.
gt_client(out) ==
  /\ \/ call.pc = "l326" /\ ~RefreshFlow(call.env)
     \/ call.pc = "l288"
  /\ ClientFlow(call.env)
  /\ call' = Asked("client", out)
  /\ UNCHANGED web

\* Lines 289-290: no flow can be tried, the token is None.
gt_none ==
  /\ \/ call.pc = "l326" /\ ~RefreshFlow(call.env)
     \/ call.pc = "l288"
  /\ ~ClientFlow(call.env)
  /\ call' = [call EXCEPT !.pc = "l327"]
  /\ UNCHANGED web

\* Lines 327-331: without a token, or for another suffix than .doc/.docx,
\* return False.
cg_check ==
  /\ call.pc = "l327"
  /\ call' = IF ~call.token \/ ~call.ext_ok
                THEN [call EXCEPT !.pc = "returned", !.result = "false"]
                ELSE [call EXCEPT !.pc = "l337"]
  /\ UNCHANGED web

\* Lines 337-338: read the source; a failing open() or read() is not caught.
cg_open(raises) ==
  /\ call.pc = "l337"
  /\ call' = IF raises
                THEN [call EXCEPT !.pc = "raised", !.result = "raise"]
                ELSE [call EXCEPT !.pc = "l346"]
  /\ UNCHANGED web

\* Lines 339-354: upload the document to the temporary remote object. The PUT
\* comes to status 200/201, another status, an HTTPError, another exception,
\* or an exception raised while the HTTPError handler reads and decodes the
\* error body (line 350); after it the backend goes on to the download,
\* returns False, or passes the exception on.
cg_upload(out) ==
  /\ call.pc = "l346"
  /\ call' = [call EXCEPT
                 !.puts = @ + 1,
                 !.pc = CASE out = "ok" -> "l362"
                          [] out = "raise" -> "raised"
                          [] OTHER -> "returned",
                 !.result = CASE out = "ok" -> @
                              [] out = "raise" -> "raise"
                              [] OTHER -> "false"]
  /\ UNCHANGED web

\* Lines 356-365, 372-373: request the object as PDF and write it. The GET
\* comes to the PDF written, an HTTPError, another exception (a failing
\* write_bytes included), or an exception raised while the HTTPError handler
\* reads and decodes the error body (line 365).
cg_convert(out) ==
  /\ call.pc = "l362"
  /\ call' = CASE out = "ok" -> [call EXCEPT !.pc = "l382", !.wrote = TRUE]
                [] out = "http_error" -> [call EXCEPT !.pc = "l367", !.result = "false"]
                [] out = "error" -> [call EXCEPT !.pc = "l375", !.result = "false"]
                [] OTHER -> [call EXCEPT !.pc = "raised", !.result = "raise"]
  /\ UNCHANGED web

\* Lines 366-371, 374-379, 381-386: send the DELETE (a failure is ignored)
\* and return.
cg_delete(fails) ==
  /\ call.pc \in {"l367", "l375", "l382"}
  /\ call' = [call EXCEPT !.deletes = @ + 1,
                            !.delete_failed = fails,
                            !.pc = "returned",
                            !.result = IF @ = "none" THEN "true" ELSE @]
  /\ UNCHANGED web

NextGraph ==
  \/ \E out \in {"token", "none", "raise"} : gt_refresh(out)
  \/ \E out \in {"token", "none", "raise"} : gt_client(out)
  \/ gt_none
  \/ cg_check
  \/ \E raises \in BOOLEAN : cg_open(raises)
  \/ \E out \in {"ok", "status", "http_error", "error", "raise"} : cg_upload(out)
  \/ \E out \in {"ok", "http_error", "error", "raise"} : cg_convert(out)
  \/ \E fails \in BOOLEAN : cg_delete(fails)

SpecGraph == InitGraph /\ [][NextGraph]_vars

\* --------------------------------------------------- _convert_word_libre

\* Line 237: the file LibreOffice writes, out_dir / (word_path.stem + ".pdf").
Expected(word) == Stem(word)

\* A call of _convert_word_libre about to start. `target` is the name
\* (without the .pdf extension) the PDF is to be written under: the stem of a
\* document, as every caller in the repository asks
\* (pdf_dir / (wf.stem + ".pdf")), or some other name. `out_files` are the
\* PDFs in out_dir: none, or one left there by an earlier conversion;
\* `existed` is what line 238 has found.
InitLibre ==
  /\ Start /\ cap = OneWorker
  /\ call \in [pc : {"l224"}, word : Paths, target : Stems \cup {"out"},
               out_files : {{}, {"a"}}, run : {"none"}, existed : {FALSE},
               result : {"none"}]

\* A backend that takes a zero exit status for success.
AfterRun_trusting(out_files, word) == TRUE

\* Line 238: `expected.exists()`.
AfterRun(out_files, word) == Expected(word) \in out_files

\* Lines 223-235, 243-245: run the office suite. subprocess.run comes to
\* exit status zero (the expected file written or not), a non-zero status
\* (CalledProcessError), no answer within 120 s (TimeoutExpired), no such
\* executable (FileNotFoundError), or another OSError of starting the
\* process, which line 243 does not catch.
cl_run(out, writes) ==
  /\ call.pc = "l224"
  /\ call' =
       CASE out = "zero" ->
              [call EXCEPT !.pc = "l237", !.run = out,
                            !.out_files = IF writes THEN @ \cup {Expected(call.word)}
                                          ELSE @]
         [] out = "oserror" ->
              [call EXCEPT !.pc = "raised", !.run = out, !.result = "raise"]
         [] OTHER ->
              [call EXCEPT !.pc = "returned", !.run = out, !.result = "false"]
  /\ UNCHANGED web

\* Lines 237-242: without the expected file return False; with it under the
\* target's name return True; otherwise go on to move it.
cl_check ==
  /\ call.pc = "l237"
  /\ call' =
       IF AfterRun(call.out_files, call.word)
         THEN IF Expected(call.word) # call.target
                THEN [call EXCEPT !.pc = "l240", !.existed = TRUE]
                ELSE [call EXCEPT !.pc = "returned", !.existed = TRUE,
                                   !.result = "true"]
         ELSE [call EXCEPT !.pc = "returned", !.result = "false"]
  /\ UNCHANGED web

\* Lines 240-241: shutil.move(expected, pdf_path) and return True; a failing
\* move is not caught.
cl_move(raises) ==
  /\ call.pc = "l240"
  /\ call' =
       IF raises
         THEN [call EXCEPT !.pc = "raised", !.result = "raise"]
         ELSE [call EXCEPT !.pc = "returned", !.result = "true",
                            !.out_files = (@ \ {Expected(call.word)})
                                            \cup {call.target}]
  /\ UNCHANGED web

NextLibre ==
  \/ \E out \in {"zero", "nonzero", "timeout", "missing", "oserror"},
        writes \in BOOLEAN : cl_run(out, writes)
  \/ cl_check
  \/ \E raises \in BOOLEAN : cl_move(raises)

SpecLibre == InitLibre /\ [][NextLibre]_vars

\* ------------------------------------------------------------ merge_pdfs

\* Pages 1..n of the PDF named `name`, as writer.add_page receives them.
PagesOf(name, n) == [i \in 1..n |-> <<name, i>>]

\* A call of merge_pdfs about to start: process_from_file_list hands it a
\* non-empty list (line 548). `disk` is what pdfs/ holds: for each name, the
\* document whose PDF is there, or "none". `k` is the position of the loop of
\* line 410, `writer` the pages added so far, `written` the pages of the
\* artifact.
InitMerge ==
  /\ Start /\ cap = OneWorker
  /\ call \in
       {m \in [pc : {"l407"}, pdf_files : SeqsOf(Stems, 1, MaxPdfs),
               disk : [Stems -> Paths \cup {"none"}], k : {1},
               total_pages : {0}, writer : {<<>>}, written : {<<>>},
               result : {<<>>}, raised : {"none"}, stage : {"merge"}] :
          \A n \in Stems : m.disk[n] # "none" => Stem(m.disk[n]) = n}

\* Lines 420-422: log the exception and return (False, 0).
Caught(m, step) ==
  [m EXCEPT !.pc = "returned", !.result = <<FALSE, 0>>, !.raised = step]

\* Lines 407-409: import pypdf, a new writer, total_pages = 0.
mp_import(fails) ==
  /\ call.pc = "l407"
  /\ call' = IF fails THEN Caught(call, "import")
                     ELSE [call EXCEPT !.pc = "l410"]
  /\ UNCHANGED web

\* A merge that puts each PDF in front of those added before.
AddPages_reversed(writer, pages) == pages \o writer

\* Lines 416-417: writer.add_page for each page, in order.
AddPages(writer, pages) == writer \o pages

\* Lines 410-417: one pass of the loop: skip a missing PDF (line 411,
\* `pdf_path.exists()`), else read it
\* (PdfReader or add_page may raise), count its pages and add them.
mp_next(raises) ==
  LET pdf_path == call.pdf_files[call.k]
      n == IF call.disk[pdf_path] = "none" THEN 0 ELSE PageCount(call.disk[pdf_path]) IN
  /\ call.pc = "l410" /\ call.k <= Len(call.pdf_files)
  /\ call' =
       IF call.disk[pdf_path] = "none"
         THEN [call EXCEPT !.k = @ + 1]
         ELSE IF raises
           THEN Caught(call, "read")
           ELSE [call EXCEPT !.k = @ + 1,
                            !.total_pages = @ + n,
                            !.writer = AddPages(@, PagesOf(pdf_path, n))]
  /\ UNCHANGED web

\* A merge that reports the pages it had counted when the write fails.
WriteFailed_partial(total_pages) == <<FALSE, total_pages>>

\* Lines 420-422 after a failed write.
WriteFailed(total_pages) == <<FALSE, 0>>

\* Lines 418-419: write the artifact and return (True, total_pages).
mp_write(raises) ==
  /\ call.pc = "l410" /\ call.k > Len(call.pdf_files)
  /\ call' = IF raises
              THEN [Caught(call, "write") EXCEPT !.result = WriteFailed(call.total_pages)]
              ELSE [call EXCEPT !.pc = "returned", !.written = call.writer,
                               !.result = <<TRUE, call.total_pages>>]
  /\ UNCHANGED web

\* process_from_file_list line 553 and _run_job_from_preview lines 222-228:
\* the result goes back to the worker, which ends in error when it is not ok
\* and goes on to store the artifact otherwise.
mp_caller ==
  /\ call.pc = "returned"
  /\ call' = [call EXCEPT !.pc = "l225",
                        !.stage = IF ~call.result[1] THEN "error" ELSE "l229"]
  /\ UNCHANGED web

NextMerge ==
  \/ \E fails \in BOOLEAN : mp_import(fails)
  \/ \E raises \in BOOLEAN : mp_next(raises)
  \/ \E raises \in BOOLEAN : mp_write(raises)
  \/ mp_caller

SpecMerge == InitMerge /\ [][NextMerge]_vars

\* -------------------------------------------------- copy_file_with_retry

\* The default of the parameter max_attempts, which the only caller
\* (main.py:583) does not override.
max_attempts == 15

\* A call of copy_file_with_retry about to start. A file name holds nothing
\* ("none"), the whole content of src ("full"), a part of it ("partial"), or
\* another, older file ("old"): the destination is new or holds an older
\* file, the .part sibling is absent or was left by an earlier call. `copies`
\* and `manual` count the calls of shutil.copy2 and the manual copies,
\* `unlink_failed` says that a part.unlink() has raised.
InitRelo ==
  /\ Start /\ cap = OneWorker
  /\ call \in [pc : {"l116"}, attempt : {0}, part : {"none", "partial"},
               dst : {"none", "old"}, last_error : {"none"}, copies : {0},
               manual : {0}, unlink_failed : {FALSE}, result : {"none"}]

\* The .part file after a copy that came to `out`.
PartAfter(part, out) ==
  CASE out = "ok" -> "full"
    [] out \in {"perm_partial", "other_partial", "fail_partial"} -> "partial"
    [] OTHER -> part

\* A mover that renames whatever the copy left behind.
AfterCopy_hasty(out) ==
  CASE out \in {"ok", "perm_partial"} -> "l117"
    [] out = "perm" -> "l121"
    [] OTHER -> "raised"

\* Lines 115-119 after shutil.copy2: go on to os.replace, to the handler of
\* PermissionError, or out of the function.
AfterCopy(out) ==
  CASE out = "ok" -> "l117"
    [] out \in {"perm", "perm_partial"} -> "l121"
    [] OTHER -> "raised"

\* Lines 114-116, 119-120: one atomic attempt, the copy to the sibling.
\* shutil.copy2(src, part) comes to: part written in full; a PermissionError
\* before anything was written, or after a part of it was; another exception
\* (src missing, disk full), which line 119 does not catch.
cr_copy(out) ==
  /\ call.pc = "l116"
  /\ call' = [call EXCEPT
                !.copies = @ + 1,
                !.part = PartAfter(@, out),
                !.pc = AfterCopy(out),
                !.last_error = IF AfterCopy(out) = "l121" THEN "perm" ELSE @,
                !.result = IF AfterCopy(out) = "raised" THEN "other" ELSE @]
  /\ UNCHANGED web

\* Lines 117-120: the rename of the sibling onto the destination.
cr_replace(out) ==
  /\ call.pc = "l117"
  /\ call' = CASE out = "ok" ->
                  [call EXCEPT !.dst = call.part, !.part = "none",
                               !.pc = "returned", !.result = "ok"]
               [] out = "perm" ->
                  [call EXCEPT !.pc = "l121", !.last_error = "perm"]
               [] OTHER ->
                  [call EXCEPT !.pc = "raised", !.result = "other"]
  /\ UNCHANGED web

\* Lines 121-125, 141-145: `if part.exists(): part.unlink()`, an OSError of
\* unlink being ignored.
Unlinked(r, fails) ==
  IF r.part = "none" THEN r
  ELSE IF fails THEN [r EXCEPT !.unlink_failed = TRUE]
  ELSE [r EXCEPT !.part = "none"]

\* A mover that gives up the atomic attempts after the first.
Retry_never(attempt) == FALSE

\* Line 126: `attempt < max_attempts - 1`.
Retry(attempt) == attempt < max_attempts - 1

\* Lines 121-129: remove the sibling, then sleep and retry, or leave the
\* loop after the last attempt.
cr_cleanup(fails) ==
  /\ call.pc = "l121"
  /\ fails => call.part # "none"
  /\ call' = IF Retry(call.attempt)
               THEN [Unlinked(call, fails) EXCEPT !.pc = "l116", !.attempt = @ + 1]
               ELSE [Unlinked(call, fails) EXCEPT !.pc = "l131"]
  /\ UNCHANGED web

\* Lines 130-137, 140: the manual byte-stream copy to the sibling.
cr_manual(out) ==
  /\ call.pc = "l131"
  /\ call' = [call EXCEPT !.manual = @ + 1,
                          !.part = PartAfter(@, out),
                          !.pc = IF out = "ok" THEN "l138" ELSE "l141"]
  /\ UNCHANGED web

\* Lines 138-140: the rename after the manual copy.
cr_replace2(fails) ==
  /\ call.pc = "l138"
  /\ call' = IF fails
               THEN [call EXCEPT !.pc = "l141"]
               ELSE [call EXCEPT !.dst = call.part, !.part = "none",
                                 !.pc = "returned", !.result = "ok"]
  /\ UNCHANGED web

\* Lines 141-146: remove the sibling and raise the PermissionError of the
\* last atomic attempt.
cr_reraise(fails) ==
  /\ call.pc = "l141"
  /\ fails => call.part # "none"
  /\ call' = [Unlinked(call, fails) EXCEPT !.pc = "raised",
                                           !.result = call.last_error]
  /\ UNCHANGED web

NextRelo ==
  \/ \E out \in {"ok", "perm", "perm_partial", "other", "other_partial"} :
       cr_copy(out)
  \/ \E out \in {"ok", "perm", "other"} : cr_replace(out)
  \/ \E fails \in BOOLEAN : cr_cleanup(fails)
  \/ \E out \in {"ok", "fail", "fail_partial"} : cr_manual(out)
  \/ \E fails \in BOOLEAN : cr_replace2(fails)
  \/ \E fails \in BOOLEAN : cr_reraise(fails)

SpecRelo == InitRelo /\ [][NextRelo]_vars

\* Every call the function makes returns or raises: the function goes on.
SpecReloFair == SpecRelo /\ WF_vars(NextRelo)

\* -------------------------------------------------- extract_page_number

\* A filename is a sequence of tokens: "L" is the label `стр` (in any case:
\* line 38 lowers the name), "T" the word `титул`, "x" any other letters,
\* "#n" a maximal run of digits that reads n, and the characters "_", " ",
\* "." (for `.` and `,`) and "-" (for `-` and `–`).
NumToks == {"#1", "#5", "#7", "#2000"}
Tokens == {"L", "T", "x", "_", " ", ".", "-"} \cup NumToks

\* int(match.group(1))
NumVal(t) ==
  CASE t = "#1" -> 1
    [] t = "#3" -> 3
    [] t = "#5" -> 5
    [] t = "#7" -> 7
    [] t = "#10" -> 10
    [] t = "#2000" -> 2000
    [] OTHER -> 0

\* \d+
IsNum(t) == NumVal(t) > 0

\* The extension every harvested document has (.doc, .docx).
Extension == <<".", "x">>

\* The filenames explored: every stem of up to MaxNameLen tokens made of the
\* tokens of the patterns of lines 39-43 (the label, the dash and numbers),
\* and every stem of up to MaxNameLen - 2 tokens of any kind, each with the
\* extension. Two runs of digits side by side are one run, so no name has
\* two numbers in a row.
Filenames ==
  {f \o Extension :
     f \in {g \in SeqsOf({"L", "-", "#5", "#7", "#2000"}, 1, MaxNameLen)
               \cup SeqsOf(Tokens, 1, MaxNameLen - 2) :
             \A k \in 1..(Len(g) - 1) : ~(IsNum(g[k]) /\ IsNum(g[k + 1]))}}

\* \s* from position i: the first position at or after i that holds no space.
RECURSIVE SkipSpaces(_, _)
SkipSpaces(f, i) ==
  IF i <= Len(f) /\ f[i] = " " THEN SkipSpaces(f, i + 1) ELSE i

\* `\s*[.,]?\s*` from position i.
SkipSeparator(f, i) ==
  LET j == SkipSpaces(f, i) IN
  IF j <= Len(f) /\ f[j] = "." THEN SkipSpaces(f, j + 1) ELSE j

\* `стр\s*[.,]?\s*(\d+)` matched at position i: the position of the number it
\* captures, 0 when it does not match there.
LabelNumberAt(f, i) ==
  IF f[i] # "L" THEN 0
  ELSE LET p == SkipSeparator(f, i + 1) IN
       IF p <= Len(f) /\ IsNum(f[p]) THEN p ELSE 0

\* `\s*[-–]` after position p: the position of the dash, 0 without one.
DashAfter(f, p) ==
  LET k == SkipSpaces(f, p + 1) IN
  IF k <= Len(f) /\ f[k] = "-" THEN k ELSE 0

\* `\s*[-–]\s*\d+` after position p.
RangeAfter(f, p) ==
  LET k == DashAfter(f, p)
      m == SkipSpaces(f, k + 1) IN
  k # 0 /\ m <= Len(f) /\ IsNum(f[m])

\* One of the patterns of page_patterns matched at position i: the position
\* of the captured number, or 0.
MatchAt(pattern, f, i) ==
  LET p == LabelNumberAt(f, i) IN
  CASE p = 0 -> 0
    [] pattern = "range" -> IF RangeAfter(f, p) THEN p ELSE 0
    [] pattern = "open" -> IF DashAfter(f, p) # 0 THEN p ELSE 0
    [] OTHER -> p

\* re.search: the leftmost match at or after position i; 0 without a match.
RECURSIVE Search(_, _, _)
Search(pattern, f, i) ==
  IF i > Len(f) THEN 0
  ELSE IF MatchAt(pattern, f, i) # 0 THEN MatchAt(pattern, f, i)
  ELSE Search(pattern, f, i + 1)

\* A list that tries the bare label + number first.
PagePattern_reversed(k) ==
  CASE k = 1 -> "bare" [] k = 2 -> "open" [] OTHER -> "range"

\* Lines 39-43, page_patterns: label + number + dash + number, then label +
\* number + dash, then label + number.
PagePattern(k) ==
  CASE k = 1 -> "range" [] k = 2 -> "open" [] OTHER -> "bare"

\* `1 <= page_num <= 1000`
InPageRange(n) == 1 <= n /\ n <= 1000

\* Lines 44-49: the patterns from the k-th on; the first that matches with a
\* number in range gives the key, 0 when none does.
RECURSIVE TryPatterns(_, _)
TryPatterns(f, k) ==
  IF k > 3 THEN 0
  ELSE LET p == Search(PagePattern(k), f, 1) IN
       IF p # 0 /\ InPageRange(NumVal(f[p])) THEN NumVal(f[p])
       ELSE TryPatterns(f, k + 1)

\* Line 62, `стр\s*[.,]?\s*(.+)`: the position where group(1) starts, for the
\* leftmost label that has something after it; 0 without one. When the
\* separator runs to the end of the name the group is its last character.
RECURSIVE AfterLabel(_, _)
AfterLabel(f, i) ==
  IF i >= Len(f) THEN 0
  ELSE IF f[i] = "L"
    THEN IF SkipSeparator(f, i + 1) > Len(f) THEN Len(f)
         ELSE SkipSeparator(f, i + 1)
  ELSE AfterLabel(f, i + 1)

\* Lines 63-67, `\b(\d+)\b` inside the group that starts at position g: the
\* first number from position p on that has no word character (a letter, a
\* digit, "_") beside it within the group and is in 2..500, or 0.
RECURSIVE FirstSmall(_, _, _)
FirstSmall(f, g, p) ==
  LET word(t) == t \in {"L", "T", "x", "_"} \/ IsNum(t) IN
  IF p > Len(f) THEN 0
  ELSE IF /\ IsNum(f[p])
          /\ p = g \/ ~word(f[p - 1])
          /\ p = Len(f) \/ ~word(f[p + 1])
          /\ 2 <= NumVal(f[p]) /\ NumVal(f[p]) <= 500
    THEN NumVal(f[p])
  ELSE FirstSmall(f, g, p + 1)

\* extract_page_number(filename), lines 36-70: page_patterns (lines 44-49);
\* range_pattern `^(\d+)\s*[-–]\s*\d+` (lines 50-55); general_range, the first
\* pattern of page_patterns once more (lines 56-61); after_str (lines 62-67);
\* `'титул' in filename_lower` (line 68); else 0.
extract_page_number(f) ==
  LET range_pattern ==
        IF IsNum(f[1]) /\ RangeAfter(f, 1) /\ InPageRange(NumVal(f[1]))
          THEN NumVal(f[1]) ELSE 0
      p == Search("range", f, 1)
      general_range ==
        IF p # 0 /\ InPageRange(NumVal(f[p])) THEN NumVal(f[p]) ELSE 0
      g == AfterLabel(f, 1)
      after_str == IF g = 0 THEN 0 ELSE FirstSmall(f, g, g) IN
  CASE TryPatterns(f, 1) # 0 -> TryPatterns(f, 1)
    [] TryPatterns(f, 1) = 0 /\ range_pattern # 0 -> range_pattern
    [] TryPatterns(f, 1) = 0 /\ range_pattern = 0 /\ general_range # 0
         -> general_range
    [] OTHER ->
         IF after_str # 0 THEN after_str
         ELSE IF \E k \in 1..Len(f) : f[k] = "T" THEN 1
         ELSE 0

\* A call of extract_page_number about to start.
InitKey ==
  /\ Start /\ cap = OneWorker
  /\ call \in [pc : {"l36"}, filename : Filenames, key : {-1}]

\* The call returns the key.
epn_return ==
  /\ call.pc = "l36"
  /\ call' = [call EXCEPT !.pc = "returned", !.key = extract_page_number(call.filename)]
  /\ UNCHANGED web

NextKey == epn_return

SpecKey == InitKey /\ [][NextKey]_vars

\* -------------------------------------------------- sort_files_by_pages

\* The names of the files sorted: without a key, the title page, labelled
\* pages, a page number out of range, a leading range, two copies of a
\* labelled page under numeric prefixes (main.py:581 stores `NNNN_name`), a
\* name under a numeric prefix only (005_Report) and a leading range before
\* an underscore (003-010_Section).
SortNames ==
  {n \o Extension :
     n \in {<<"x">>, <<"T">>, <<"L", "#5">>, <<"L", "#7", "-", "#2000">>,
            <<"L", "#2000">>, <<"#5", "-", "#7">>, <<"#1", "_", "L", "#5">>,
            <<"#7", "_", "L", "#5">>, <<"#5", "_", "x">>,
            <<"#3", "-", "#10", "_", "x">>}}

\* _logical_filename(name), `^\d+_(.+)$`: the name without a numeric prefix.
_logical_filename(name) ==
  IF Len(name) >= 3 /\ IsNum(name[1]) /\ name[2] = "_"
    THEN SubSeq(name, 3, Len(name))
    ELSE name

\* A resolver that keeps every file.
Skipped_never(key, seen_key) == FALSE

\* Line 101: `if key in seen_key`.
Skipped(key, seen_key) == key \in seen_key

\* Lines 96-105: (page_num, name) of the files from the k-th on, a file whose
\* key (page_num, logical name) was seen before being skipped; keys[k] is the
\* key of the k-th file.
RECURSIVE FilesWithPages(_, _, _, _)
FilesWithPages(files, keys, k, seen_key) ==
  IF k > Len(files) THEN <<>>
  ELSE IF Skipped(keys[k], seen_key)
    THEN FilesWithPages(files, keys, k + 1, seen_key)
  ELSE <<<<keys[k][1], files[k]>>>>
         \o FilesWithPages(files, keys, k + 1, seen_key \cup {keys[k]})

\* A sort by the page number as it is, 0 included.
SortKey_plain(page_num) == page_num

\* Line 106: `x[0] if x[0] > 0 else 9999`.
SortKey(page_num) == IF page_num > 0 THEN page_num ELSE 9999

\* `x` put into a sorted list behind every entry whose key is not larger.
RECURSIVE Insert(_, _)
Insert(x, sorted) ==
  IF sorted = <<>> THEN <<x>>
  ELSE IF SortKey(x[1]) < SortKey(Head(sorted)[1]) THEN <<x>> \o sorted
  ELSE <<Head(sorted)>> \o Insert(x, Tail(sorted))

\* list.sort(key=...), line 106: a stable sort, the first k entries sorted.
RECURSIVE Sorted(_, _)
Sorted(pairs, k) ==
  IF k = 0 THEN <<>> ELSE Insert(pairs[k], Sorted(pairs, k - 1))

\* sort_files_by_pages(files), lines 92-107.
sort_files_by_pages(files) ==
  LET keys == [k \in 1..Len(files) |->
                 <<extract_page_number(files[k]), _logical_filename(files[k])>>]
      files_with_pages == FilesWithPages(files, keys, 1, {})
      sorted == Sorted(files_with_pages, Len(files_with_pages)) IN
  [k \in 1..Len(sorted) |-> sorted[k][2]]

\* A call of sort_files_by_pages about to start, for every list in every
\* order.
InitSort ==
  /\ Start /\ cap = OneWorker
  /\ call \in [pc : {"l94"}, files : SeqsOf(SortNames, 0, MaxSortLen),
               result : {<<>>}]

\* The call returns the resolved list.
sfp_return ==
  /\ call.pc = "l94"
  /\ call' = [call EXCEPT !.pc = "returned", !.result = sort_files_by_pages(call.files)]
  /\ UNCHANGED web

NextSort == sfp_return

SpecSort == InitSort /\ [][NextSort]_vars

\* ------------------------------------------------- the conversion loop

\* The loop of process_from_file_list (core.py:536-547) or of
\* _process_folder_to_pdf_impl (core.py:442-455) called on its own with a
\* list of documents, right after `pdf_dir.mkdir(exist_ok=True)`. `pdf_dir`
\* says for each PDF path which document's conversion wrote the file there,
\* `reported` whether convert_word_to_pdf returned True in each pass and
\* `results` which list the pass appended to.
InitLoop ==
  /\ Start /\ cap = OneWorker
  /\ \E fn \in {"process_from_file_list", "_process_folder_to_pdf_impl"},
        file_paths \in SeqsOf(Paths, 1, MaxFiles) :
       call = [pc |-> "loop", fn |-> fn, file_paths |-> file_paths, i |-> 1,
               pdf_dir |-> [st \in Stems |-> "none"],
               pdf_files |-> <<>>, failed |-> <<>>, reported |-> <<>>,
               results |-> <<>>]

\* One pass of the loop body for file_paths[i]; the test `wf.exists()` of
\* line 539 is made by process_from_file_list only. An exception of
\* convert_word_to_pdf leaves the loop and the function.
loop_pass(out) ==
  LET wf == call.file_paths[call.i]
      pdf_path == Stem(wf)
      good == Converted(out, call.pdf_dir[pdf_path] # "none") IN
  /\ call.pc = "loop"
  /\ out = "missing" => call.fn = "process_from_file_list"
  /\ call' =
       IF out = "raise" THEN [call EXCEPT !.pc = "raised"]
       ELSE [call EXCEPT
               !.pc = IF call.i = Len(call.file_paths) THEN "after" ELSE "loop",
               !.i = @ + 1,
               !.pdf_dir = IF out = "true_written"
                             THEN [@ EXCEPT ![pdf_path] = wf] ELSE @,
               !.pdf_files = IF good THEN Append(@, pdf_path) ELSE @,
               !.failed = IF good THEN @ ELSE Append(@, Name(wf)),
               !.reported = Append(@, Reported(out)),
               !.results = Append(@, good)]
  /\ UNCHANGED web

NextLoop == \E out \in ConvertOutcomes : loop_pass(out)

SpecLoop == InitLoop /\ [][NextLoop]_vars

\* --------------------------------------------------- split_pdf_by_size

\* Sizes a page can have and limits a caller can give (max_size_bytes), in
\* one unit. A file of pages weighs the sum of its pages.
PageSizes == {1, 3}
Limits == {4, 12, 20}

\* part_path.stat().st_size of a part holding pages start+1 .. end of `sizes`
\* (range(start_page, end_page), counted from 0 in the source).
RECURSIVE PartSize(_, _, _)
PartSize(sizes, start, end) ==
  IF start >= end THEN 0 ELSE sizes[start + 1] + PartSize(sizes, start + 1, end)

\* A call split_pdf_by_size(pdf_path, max_size_mb, output_dir) for a PDF of
\* at least one page.
InitSplit ==
  /\ Start /\ cap = OneWorker
  /\ \E sizes \in SeqsOf(PageSizes, 1, MaxPages), max_size \in Limits :
       call = [pc |-> "l95", sizes |-> sizes, max_size |-> max_size,
               pages_per_part |-> 0, start_page |-> 0, end_page |-> 0,
               on_disk |-> FALSE, parts |-> <<>>]

\* Line 147: `pages_per_part = max(5, pages_per_part // 2)`.
Halved(pages_per_part) ==
  IF pages_per_part \div 2 < 5 THEN 5 ELSE pages_per_part \div 2

\* Lines 95-123: a file within the limit is returned as it is; else the part
\* size is estimated from the average page and put between 10 and 100.
split_pdf_by_size ==
  LET total_pages == Len(call.sizes)
      file_size == PartSize(call.sizes, 0, total_pages)
      estimate == (call.max_size * total_pages) \div file_size - 1 IN
  /\ call.pc = "l95"
  /\ call' = IF file_size <= call.max_size
               THEN [call EXCEPT !.pc = "returned", !.parts = <<<<0, total_pages>>>>]
               ELSE [call EXCEPT
                       !.pc = "l125",
                       !.pages_per_part =
                          IF estimate > 100 THEN 100
                          ELSE IF estimate < 10 THEN 10 ELSE estimate]
  /\ UNCHANGED web

\* Lines 125-137: the loop test, and the part of the next pages_per_part
\* pages written to disk.
split_write ==
  LET total_pages == Len(call.sizes)
      upto == call.start_page + call.pages_per_part IN
  /\ call.pc = "l125"
  /\ call' = IF call.start_page < total_pages
               THEN [call EXCEPT
                       !.pc = "l139",
                       !.end_page = IF upto < total_pages THEN upto ELSE total_pages,
                       !.on_disk = TRUE]
               ELSE [call EXCEPT !.pc = "returned"]
  /\ UNCHANGED web

\* Lines 139-155: a part over the limit is deleted and the part size halved
\* for the retry; a part within the limit is kept and the loop moves on.
split_test ==
  /\ call.pc = "l139"
  /\ call' = IF PartSize(call.sizes, call.start_page, call.end_page) > call.max_size
               THEN [call EXCEPT !.pc = "l125", !.on_disk = FALSE,
                                 !.pages_per_part = Halved(@)]
               ELSE [call EXCEPT !.pc = "l125", !.on_disk = FALSE,
                                 !.parts = Append(@, <<call.start_page, call.end_page>>),
                                 !.start_page = call.end_page]
  /\ UNCHANGED web

NextSplit == split_pdf_by_size \/ split_write \/ split_test

SpecSplit == InitSplit /\ [][NextSplit]_vars

\* The interpreter keeps running the call.
SpecSplitFair == SpecSplit /\ WF_vars(NextSplit)

\* ------------------------------------------------------- main.py: the bot

\* user_data.get(key, default)
Get(user_data, key, default) ==
  IF key \in DOMAIN user_data THEN user_data[key] ELSE default

\* user_data.pop(key, None) for each of `keys`.
Pop(user_data, keys) == [k \in DOMAIN user_data \ keys |-> user_data[k]]

\* The bot with one user, before the first update. `user_data` is
\* context.user_data; `disk` are the files under USER_FILES_ROOT/<user>, each
\* <<batch, index, name>>; `batches` says which archives were copied into
\* each batch folder and `overwritten` which files were written a second
\* time; `received` counts the archives sent, `cmd` is the last handler run.
\* The dispatcher runs one handler at a time (main.py:753, no
\* concurrent_updates).
InitBot ==
  /\ Start /\ cap = OneWorker
  /\ call = [pc |-> "bot", user_data |-> <<>>, disk |-> {},
             batches |-> [b \in 0..MaxZips |-> {}], overwritten |-> {},
             received |-> 0, cmd |-> "none"]

\* Lines 562-566: a user_data with the three keys.
NewCollection(user_data) ==
  IF "collected_word_files" \in DOMAIN user_data THEN user_data
  ELSE [k \in DOMAIN user_data \cup {"collected_word_files", "zip_count", "zip_names"} |->
          CASE k = "collected_word_files" -> <<>>
            [] k = "zip_count" -> 0
            [] k = "zip_names" -> <<>>
            [] OTHER -> user_data[k]]

\* A bot that numbers the batch folders by the archives received.
BatchId_fresh(user_data, received) == received

\* Line 574: `batch_id = user_data['zip_count']`.
BatchId(user_data, received) == user_data["zip_count"]

\* Lines 577-585: the destinations of the first n documents,
\* batch_<id>/<i:04d>_<name>.
Copied(batch_id, names, n) == [i \in 1..n |-> <<batch_id, i - 1, names[i]>>]

\* process_zip_file, lines 461-611, for an archive that holds the documents
\* `names`. It is turned away (no document, not a .zip, too large, lines
\* 465-492), fails to download or to unpack (lines 503-541), holds no
\* document (lines 553-555), or its documents are copied: all of them
\* (copied = Len(names)), or the first `copied` before copy_file_with_retry
\* raises, which line 600 catches after line 569 has run.
process_zip_file(names, out, copied) ==
  LET user_data == NewCollection(call.user_data)
      batch_id == BatchId(user_data, call.received)
      dest == Copied(batch_id, names, copied)
      written == {dest[i] : i \in 1..copied}
      named == [user_data EXCEPT !["zip_names"] = Append(@, call.received + 1)] IN
  /\ call.pc = "bot" /\ call.received < MaxZips
  /\ copied <= Len(names)
  /\ out = "copy" => names # <<>>
  /\ out # "copy" => copied = 0
  /\ call' =
       IF out # "copy" \/ names = <<>>
         THEN [call EXCEPT !.received = @ + 1, !.cmd = "zip"]
         ELSE [call EXCEPT
                 !.received = @ + 1, !.cmd = "zip",
                 !.disk = @ \cup written,
                 !.overwritten = @ \cup (call.disk \cap written),
                 !.batches[batch_id] =
                    IF copied > 0 THEN @ \cup {call.received + 1} ELSE @,
                 !.user_data =
                    IF copied < Len(names) THEN named
                    ELSE [named EXCEPT
                            !["collected_word_files"] = @ \o dest,
                            !["zip_count"] = @ + 1]]
  /\ UNCHANGED web

\* merge_collected_files, lines 160-459. Without collected files it only
\* answers (lines 169-174: "empty"); the sorted list of a non-empty
\* collection is never empty, so lines 180-185 are not reached. Otherwise no
\* document is converted (lines 249-279), merge_pdfs fails (lines 317-319),
\* the report is built (lines 339-342: "done", whatever the sending comes
\* to), or an exception reaches line 447 before that ("exception").
merge_collected_files(out) ==
  LET collected_files == Get(call.user_data, "collected_word_files", <<>>)
      all == {"collected_word_files", "zip_count", "zip_names"} IN
  /\ call.pc = "bot"
  /\ out = "empty" <=> collected_files = <<>>
  /\ call' =
       [call EXCEPT
          !.cmd = "merge",
          !.user_data =
             CASE out \in {"none_converted", "done"} -> Pop(@, all)
               [] out = "exception" -> Pop(@, {"collected_word_files", "zip_count"})
               [] OTHER -> @]
  /\ UNCHANGED web

\* A /start that does what the help text (line 652) says it does.
AfterStart_cleared(user_data) == <<>>

\* start_command, lines 615-626: a greeting; user_data is not touched.
AfterStart(user_data) == user_data

\* start_command.
start_command ==
  /\ call.pc = "bot"
  /\ call' = [call EXCEPT !.cmd = "start", !.user_data = AfterStart(@)]
  /\ UNCHANGED web

\* help_command and status_command, lines 629-678: they read user_data and
\* answer.
status_command ==
  /\ call.pc = "bot"
  /\ call' = [call EXCEPT !.cmd = "status"]
  /\ UNCHANGED web

\* cancel_command, lines 681-694: user_data.clear() when files are collected.
cancel_command ==
  /\ call.pc = "bot"
  /\ call' = [call EXCEPT
                !.cmd = "cancel",
                !.user_data =
                   IF Len(Get(@, "collected_word_files", <<>>)) > 0 THEN <<>> ELSE @]
  /\ UNCHANGED web

NextBot ==
  \/ \E names \in {<<>>, <<"a">>, <<"b">>, <<"a", "b">>},
        out \in {"refused", "failed", "copy"}, copied \in 0..2 :
       process_zip_file(names, out, copied)
  \/ \E out \in {"empty", "none_converted", "merge_failed", "done", "exception"} :
       merge_collected_files(out)
  \/ start_command
  \/ status_command
  \/ cancel_command

SpecBot == InitBot /\ [][NextBot]_vars

\* ---------------------------------------------------------------- claims

\* The workers started for job j so far.
RunsOf(j) == {t \in Threads : workers[t].pc # "idle" /\ workers[t].job = j}

\* The stages the specification lists, in its order; done and error share the
\* last place.
ClaimedRank(stage) ==
  CASE stage = "preview" -> 0
    [] stage = "found" -> 1
    [] stage = "convert" -> 2
    [] stage = "merge" -> 3
    [] stage = "done" -> 4
    [] stage = "error" -> 4
    [] OTHER -> -1

\* The stages the worker sets, in the order it sets them.
StageRank(stage) ==
  CASE stage = "preview" -> 0
    [] stage = "processing" -> 1
    [] stage = "found" -> 2
    [] stage = "convert" -> 3
    [] stage = "merge" -> 4
    [] stage = "done" -> 5
    [] stage = "error" -> 5
    [] OTHER -> -1

\* C1 as stated: every stage a poll can return is one of preview, found,
\* convert, merge, done, error, and a change of stage moves forward in that
\* order.
C1_ListedStagesOnly ==
  [][\A j \in DOMAIN jobs' :
       /\ ClaimedRank(jobs'[j].stage) >= 0
       /\ (j \in DOMAIN jobs /\ jobs'[j].stage # jobs[j].stage)
            => ClaimedRank(jobs[j].stage) < ClaimedRank(jobs'[j].stage)]_vars

\* C1, amended: for a job with a single run, every stage a poll can return is
\* one of preview, processing, found, convert, merge, done, error, and a
\* change of stage moves forward in that order (done and error are final).
C1_StageOrder ==
  [][\A j \in DOMAIN jobs' :
       /\ StageRank(jobs'[j].stage) >= 0
       /\ (j \in DOMAIN jobs /\ Cardinality(RunsOf(j)') <= 1
             /\ jobs'[j].stage # jobs[j].stage)
            => StageRank(jobs[j].stage) < StageRank(jobs'[j].stage)]_vars

\* A poll answers "done" after a run over two documents went through
\* processing, found, convert and merge.
C1_Witness ==
  /\ resp.op = "progress" /\ resp.code = 200
  /\ resp.body[1].stage = "done"
  /\ \E t \in Threads : /\ workers[t].pc = "end"
                        /\ workers[t].job = resp.job
                        /\ Len(workers[t].merged) = 2

\* C2 as stated: in every state of a job record, the artifact path is set
\* exactly when the stage is done.
C2_ArtifactIffDone ==
  \A j \in DOMAIN jobs : (jobs[j].pdf_path # "none") <=> (jobs[j].stage = "done")

\* C3 as stated: a run that failed leaves its job in stage error with an
\* error message, the done flag set and no artifact path.
C3_FailedRunIsDone ==
  \A t \in Threads :
    (workers[t].pc = "end" /\ workers[t].ended = "error") =>
      LET rec == jobs[workers[t].job] IN
      /\ rec.stage = "error"
      /\ rec.error.kind # "none"
      /\ rec.done
      /\ rec.pdf_path = "none"

\* The positions of a submitted index list that refer to an entry of a list of
\* n documents.
ValidAt(order, n) == {k \in 1..Len(order) : 0 <= order[k] /\ order[k] < n}

\* The workers a step starts.
Started == {t \in Threads : workers[t].pc = "idle" /\ workers'[t].pc # "idle"}

\* C4: a confirm starts a worker only for a known job in stage preview with
\* an order that is non-empty after dropping the invalid indices; for an
\* unknown job, a job in another stage or an order left empty it answers with
\* an error and starts no worker; it never changes a job record.
C4_ConfirmGuard ==
  [][resp'.op = "convert" =>
       LET j == resp'.job
           known == j \in DOMAIN jobs
           fresh == known /\ jobs[j].stage = "preview"
           kept == fresh /\ ValidAt(resp'.order, Len(jobs[j].sorted_file_paths)) # {} IN
       /\ Started # {} => kept /\ resp'.code = 200
       /\ ~kept => resp'.code \in {400, 401, 403, 404} /\ Started = {}
       /\ jobs' = jobs]_vars

\* A confirm was just accepted and its worker waits to run, the job still in
\* stage preview.
C4_Witness ==
  /\ resp.op = "convert" /\ resp.code = 200 /\ resp.order = <<2, 0>>
  /\ \E t \in Threads : workers[t].pc = "l197" /\ workers[t].job = resp.job
  /\ jobs[resp.job].stage = "preview"

\* r lists the entries of sorted_paths that the in-range indices of order
\* refer to, in the order submitted, repeats kept.
IsSelection(r, order, sorted_paths) ==
  LET valid == ValidAt(order, Len(sorted_paths)) IN
  /\ Len(r) = Cardinality(valid)
  /\ \E f \in [1..Len(r) -> valid] :
       /\ \A a, b \in 1..Len(r) : a < b => f[a] < f[b]
       /\ \A k \in 1..Len(r) : r[k] = sorted_paths[order[f[k]] + 1]

\* C5: the owner's confirm of a preview job is accepted whenever one submitted
\* index is in range, the worker it starts is handed exactly the in-range
\* indices in the submitted order, repeats kept, and the file list the worker
\* converts holds the entries they refer to, in that order.
C5_SelectedDocuments ==
  /\ [][(resp'.op = "convert" /\ ReadsBody(resp'.user, resp'.job)) =>
          LET paths == jobs[resp'.job].sorted_file_paths IN
          IF ValidAt(resp'.order, Len(paths)) = {}
            THEN resp'.code = 400 /\ Started = {}
            ELSE /\ resp'.code = 200
                 /\ \E t \in Started :
                      /\ workers'[t].sorted_paths = paths
                      /\ IsSelection(
                           [k \in 1..Len(workers'[t].order) |->
                              paths[workers'[t].order[k] + 1]],
                           resp'.order, paths)]_vars
  /\ [](\A t \in Threads :
          workers[t].pc \notin {"idle", "l197"} =>
            IsSelection(workers[t].file_list, workers[t].order,
                        workers[t].sorted_paths))

\* A worker converts the second entry twice: the order submitted named it
\* twice.
C5_Witness ==
  \E t \in Threads :
    /\ workers[t].order = <<1, 1>>
    /\ workers[t].pc = "end"
    /\ Len(workers[t].sorted_paths) = 2
    /\ workers[t].file_list = <<workers[t].sorted_paths[2], workers[t].sorted_paths[2]>>
    /\ workers[t].attempted = workers[t].file_list

\* The documents a worker was confirmed to convert: the entries of the resolved
\* list its (filtered) order refers to, in the order confirmed.
Confirmed(w) == [k \in 1..Len(w.order) |-> w.sorted_paths[w.order[k] + 1]]

\* The PDFs of the documents of `docs` whose conversion succeeded, in order.
RECURSIVE Successes(_, _)
Successes(docs, results) ==
  IF docs = <<>> \/ results = <<>> THEN <<>>
  ELSE (IF Head(results) THEN <<Stem(Head(docs))>> ELSE <<>>)
       \o Successes(Tail(docs), Tail(results))

\* C6: the documents a worker has attempted so far are an initial part of the
\* list the caller confirmed, in the confirmed order, one more document per
\* loop pass; the PDFs collected, and those handed to merge, are the PDFs of
\* the successfully converted ones in that order, and merge is handed them
\* only after every confirmed document was attempted.
C6_ConfirmedOrder ==
  /\ [](\A t \in Threads :
          LET w == workers[t] IN
          w.pc # "idle" =>
            /\ Len(w.attempted) <= Len(w.order)
            /\ w.attempted = SubSeq(Confirmed(w), 1, Len(w.attempted))
            /\ w.pdf_files = Successes(w.attempted, w.results)
            /\ w.merged # <<>> =>
                 /\ w.attempted = Confirmed(w)
                 /\ w.merged = Successes(Confirmed(w), w.results))
  /\ [][\A t \in Threads :
          \/ workers'[t].attempted = workers[t].attempted
          \/ /\ workers[t].pc = "p537"
             /\ Len(workers'[t].attempted) = Len(workers[t].attempted) + 1]_vars

\* A run confirmed in the reverse of the inferred order hands merge the two
\* PDFs in the confirmed order.
C6_Witness ==
  \E t \in Threads :
    LET w == workers[t] IN
    /\ w.pc = "end" /\ jobs[w.job].stage = "done"
    /\ w.order = <<1, 0>>
    /\ w.attempted = <<w.sorted_paths[2], w.sorted_paths[1]>>
    /\ w.merged = <<Stem(w.sorted_paths[2]), Stem(w.sorted_paths[1])>>
    /\ w.merged[1] # w.merged[2]

\* Whether the run of a finished worker converted a document, and how its
\* merge step went.
SomeConverted(w) == \E k \in 1..Len(w.results) : w.results[k]
MergeRan(w) == w.merged # <<>>
MergeSucceeded(w) == MergeRan(w) /\ w.ok
MergeFailed(w) == MergeRan(w) /\ ~w.ok

\* C7 as stated, for the runs in which no conversion raised: a finished run
\* left stage done exactly when a document was converted and the merge
\* succeeded, and stage error exactly when no document was converted or the
\* merge failed.
C7_DoneIffConvertedAndMerged ==
  \A t \in Threads :
    LET w == workers[t] IN
    (w.pc = "end" /\ w.raised # "convert") =>
      /\ jobs[w.job].stage = "done" <=> (SomeConverted(w) /\ MergeSucceeded(w))
      /\ jobs[w.job].stage = "error" <=> (~SomeConverted(w) \/ MergeFailed(w))

\* C7, amended: a finished run left stage done exactly when a document was
\* converted, the merge succeeded and no step of the worker raised (creating
\* the PDF directory, a conversion, storing the artifact); in every other
\* case it left stage error. Failed documents do not matter.
C7_DoneIffNothingRaised ==
  \A t \in Threads :
    LET w == workers[t] IN
    w.pc = "end" =>
      /\ jobs[w.job].stage \in {"done", "error"}
      /\ jobs[w.job].stage = "done" <=>
           (SomeConverted(w) /\ MergeSucceeded(w) /\ w.raised = "none")

\* A run ends done although one of its two documents failed.
C7_Witness ==
  \E t \in Threads :
    LET w == workers[t] IN
    /\ w.pc = "end" /\ jobs[w.job].stage = "done"
    /\ Len(w.failed) = 1 /\ Len(w.merged) = 1 /\ Len(w.file_list) = 2

\* C8 as stated: when a run is over, and unless creating the PDF directory or
\* storing the artifact raised, every document of its list was attempted and
\* each one that was not converted is in the failed list.
C8_BatchNeverAborted ==
  \A t \in Threads :
    LET w == workers[t] IN
    (w.pc = "end" /\ w.raised \notin {"mkdir", "store"}) =>
      /\ w.attempted = w.file_list
      /\ Len(w.pdf_files) + Len(w.failed) = Len(w.file_list)

\* The job record at the end of the update worker w is in the middle of,
\* given the record `rec` at its beginning.
UpdateEnd(w, rec) ==
  CASE w.pc \in {"l205", "l206", "l207"} ->
         [rec EXCEPT !.stage = "processing", !.total = Len(w.file_list),
                     !.current = 0, !.file_names = <<>>]
    [] w.pc \in {"cb210", "cb211", "cb212", "cb213", "cb215"} ->
         [rec EXCEPT !.total = Len(w.file_list), !.current = w.cb_current,
                     !.current_file = w.cb_name,
                     !.file_names = IF w.cb_name # "" /\ w.cb_name # "merge"
                                      THEN Append(rec.file_names, w.cb_name)
                                      ELSE rec.file_names,
                     !.stage = IF w.cb_current = 0 THEN "found"
                               ELSE IF w.cb_current = -1 THEN "merge"
                               ELSE "convert"]
    [] w.pc = "l227" ->
         [rec EXCEPT !.stage = "error", !.error = NotOkError(w.failed)]
    [] w.pc \in {"l237", "l238", "l239", "l240"} ->
         [rec EXCEPT !.pdf_path = "stored", !.stage = "done",
                     !.total_pages = w.total_pages, !.filename = "stored.pdf",
                     !.done = TRUE]
    [] w.pc \in {"err_msg", "err_done"} ->
         [rec EXCEPT !.stage = "error", !.error = w.emsg, !.done = TRUE]
    [] OTHER -> rec

\* C9 as stated: the snapshot a poll returns is the job record as the last
\* whole update left it, or as the update in progress will leave it.
C9_SnapshotIsUnit ==
  (resp.op = "progress" /\ resp.code = 200) =>
    \/ resp.body[1] = Snapshot(unit[resp.job])
    \/ \E t \in Threads :
         /\ workers[t].job = resp.job
         /\ resp.body[1] = Snapshot(UpdateEnd(workers[t], unit[resp.job]))

\* The first half of C10 (it holds under SpecFair): a started worker comes to
\* its end with the job in stage done or error.
C10_Terminates ==
  \A t \in Threads :
    (workers[t].pc # "idle") ~>
      (workers[t].pc = "end" /\ jobs[workers[t].job].stage \in {"done", "error"})

\* C10 as stated (its second half): once a job is in stage done or error no
\* field of its record changes.
C10_TerminalIsFrozen ==
  [][\A j \in DOMAIN jobs :
       jobs[j].stage \in {"done", "error"} => jobs'[j] = jobs[j]]_vars

\* The calls of the progress callback in a run over file_list: the count, one
\* call per document, and the merge sentinel.
ExpectedCalls(file_list) ==
  LET n == Len(file_list) IN
  <<Call(0, n, "")>>
  \o [i \in 1..n |-> Call(i, n, Name(file_list[i]))]
  \o <<Call(-1, n, "merge")>>

\* C11: the calls of the progress callback made so far in a run over n
\* documents are an initial part of (0, n, ""), (1, n, name 1), ...,
\* (n, n, name n), (-1, n, "merge"); a run that no exception cut short has
\* made all calls up to the n-th; and when the call with current = i >= 1 has
\* returned the job is in stage convert with current = i, current_file the
\* name of document i and file_names the first i names in order.
C11_CallbackSequence ==
  \A t \in Threads :
    LET w == workers[t]
        n == Len(w.file_list) IN
    w.pc \notin {"idle", "l197"} =>
      /\ Len(w.calls) <= n + 2
      /\ w.calls = SubSeq(ExpectedCalls(w.file_list), 1, Len(w.calls))
      /\ (w.pc = "end" /\ w.raised \notin {"mkdir", "convert"}) => Len(w.calls) >= n + 1
      /\ w.pc = "p537" =>
           /\ w.calls[Len(w.calls)].current = w.i /\ w.i >= 1
           /\ jobs[w.job].stage = "convert"
           /\ jobs[w.job].total = n
           /\ jobs[w.job].current = w.i
           /\ jobs[w.job].current_file = Name(w.file_list[w.i])
           /\ jobs[w.job].file_names = [k \in 1..w.i |-> Name(w.file_list[k])]

\* The callback has returned from the call for the second of two documents
\* with different names.
C11_Witness ==
  \E t \in Threads :
    LET w == workers[t] IN
    /\ w.pc = "p537" /\ w.i = 2
    /\ Len(jobs[w.job].file_names) = 2
    /\ jobs[w.job].file_names[1] # jobs[w.job].file_names[2]

\* C12: merge_pdfs is called and the merge callback emitted only in a run
\* that converted a document (its PDF was written), and a job is in stage
\* merge only if a run of it did; a run whose loop ended with no document
\* converted fails (it sets stage error) without calling merge or emitting
\* the merge callback.
C12_MergeNeedsSuccess ==
  /\ \A t \in Threads :
       LET w == workers[t]
           merge_called == MergeRan(w) \/ w.pc = "p552"
           merge_emitted == \E k \in 1..Len(w.calls) : w.calls[k].current = -1 IN
       w.pc # "idle" =>
         /\ (merge_called \/ merge_emitted) =>
              /\ SomeConverted(w)
              /\ \E st \in Stems : pdf_dir[w.job][st] # "none"
         /\ (w.pc = "end" /\ Len(w.results) = Len(w.file_list) /\ ~SomeConverted(w)) =>
              /\ w.ended = "error"
              /\ ~merge_called /\ ~merge_emitted
  /\ \A j \in DOMAIN jobs :
       jobs[j].stage = "merge" => \E t \in RunsOf(j) : SomeConverted(workers[t])

\* A run over two documents, neither converted, has ended.
C12_Witness ==
  \E t \in Threads :
    LET w == workers[t] IN
    /\ w.pc = "end" /\ w.results = <<FALSE, FALSE>>
    /\ Len(w.calls) = 3 /\ jobs[w.job].stage = "error"

\* C13: for a job of the registry, download answers with the artifact only if
\* the done flag is set, an artifact path is recorded and the file exists,
\* and it does so for the owner whenever the three hold; every other answer
\* is an error without content.
C13_ResultIffDone ==
  [][(resp'.op = "download" /\ resp'.job \in DOMAIN jobs) =>
       \A exists \in BOOLEAN :
         download(resp'.user, resp'.job, exists) =>
           LET rec == jobs[resp'.job]
               ready == rec.done /\ rec.pdf_path # "none" /\ exists IN
           /\ resp'.code = 200 => ready /\ resp'.body = <<rec.pdf_path>>
           /\ (ready /\ resp'.user = rec.user_id) => resp'.code = 200
           /\ resp'.code # 200 =>
                resp'.code \in {400, 401, 403, 404} /\ resp'.body = <<>>]_vars

\* The owner has just been sent the artifact of a finished job.
C13_Witness ==
  /\ resp.op = "download" /\ resp.code = 200
  /\ resp.body = <<"stored">>
  /\ jobs[resp.job].done /\ jobs[resp.job].user_id = resp.user

\* C14: a step that changes a job record is a step of a worker of that job;
\* progress and download change no record, no worker and no file and do not
\* add to the registry; and progress can always be answered at once, whatever
\* the workers are doing.
C14_OnlyWorkerWrites ==
  /\ [][/\ resp'.op \in {"progress", "download"} =>
            /\ jobs' = jobs /\ workers' = workers
            /\ pdf_dir' = pdf_dir /\ tmp_dirs' = tmp_dirs
         /\ \A j \in DOMAIN jobs :
              jobs'[j] # jobs[j] =>
                \E t \in Threads :
                  /\ workers[t].job = j
                  /\ workers[t].pc \notin {"idle", "end"}
                  /\ workers'[t] # workers[t]]_vars
  /\ [](\A j \in ReqIds : ENABLED progress(j))

\* A poll is answered while the worker is in the middle of a conversion.
C14_Witness ==
  /\ resp.op = "progress" /\ resp.code = 200
  /\ \E t \in Threads : workers[t].pc = "p537" /\ workers[t].job = resp.job
  /\ resp.body[1].stage = "convert"

\* C15 as stated: when a job is in a terminal stage its working directory has
\* been removed (a removal always succeeds here).
C15_WorkDirRemoved ==
  \A j \in DOMAIN jobs :
    jobs[j].stage \in {"done", "error"} => jobs[j].work_dir \notin tmp_dirs

\* C16 as stated, for the runs in which no step raised: the final status is
\* done or error and lists the names of the documents that failed (the first
\* five of them).
C16_FailedNamesListed ==
  \A t \in Threads :
    LET w == workers[t] IN
    (w.pc = "end" /\ w.raised = "none") =>
      LET status == Snapshot(jobs[w.job]) IN
      /\ status.stage \in {"done", "error"}
      /\ status.error.names = Take(w.failed, 5)

\* C17 as stated: no job of the registry has an empty resolved list.
C17_NoEmptyPreview ==
  \A j \in DOMAIN jobs : jobs[j].sorted_file_paths # <<>>

\* C18: a call of convert_word_to_pdf that returned False was refused by
\* every backend it tried; one that returned True was accepted by the last
\* backend it tried; and no backend is tried after one that succeeded.
C18_FirstSuccessWins ==
  LET n == Len(call.tried) IN
  /\ \A k \in 1..(n - 1) : call.outcomes[k] # "true"
  /\ call.pc = "returned" =>
       /\ n >= 1
       /\ call.result = "false" => \A k \in 1..n : call.outcomes[k] = "false"
       /\ call.result = "true" <=> \E k \in 1..n : call.outcomes[k] = "true"
       /\ call.result \in {"true", "false"}

\* The cloud backend failed and the local one then converted the document.
C18_Witness ==
  /\ call.pc = "returned" /\ call.result = "true"
  /\ call.tried = <<"graph", "libre">>
  /\ call.outcomes = <<"false", "true">>

\* C19 as stated: when a call is over, on the native platform without override
\* the native backend alone was tried; in every other case the cloud backend
\* was tried, and tried first, exactly if it is configured, and the local
\* backend was tried, after it, exactly if the cloud backend is not
\* configured or did not succeed.
C19_BackendChain ==
  call.pc \in {"returned", "raised"} =>
    LET configured == _graph_configured(call.env) IN
    IF call.win32 /\ ~call.use_libreoffice
      THEN call.tried = <<"win">>
      ELSE call.tried =
             (IF configured THEN <<"graph">> ELSE <<>>)
             \o (IF ~configured \/ call.outcomes[1] # "true"
                   THEN <<"libre">> ELSE <<>>)

\* The threads between CoInitialize() (line 158) and the release of the
\* automation subsystem (line 203).
InSection ==
  {t \in ComThreads :
     call.th[t].pc \in {"l158", "l160", "l166", "l173", "l180", "l186",
                       "l187", "l197", "l203"}}

\* C20: at most one thread is between initializing the automation subsystem
\* and releasing it, and it holds the lock; a thread that has reached the
\* lock goes on only when no thread is in that section.
C20_SingleFlight ==
  /\ [](/\ Cardinality(InSection) <= 1
        /\ \A t \in InSection : call.lock = t)
  /\ [][\A t \in ComThreads :
          (call.th[t].pc = "l157" /\ call'.th[t].pc # "l157") => InSection = {}]_vars

\* One thread is exporting while another waits at the lock.
C20_Witness ==
  \E t, u \in ComThreads :
    /\ t # u
    /\ call.th[t].pc = "l173"
    /\ call.th[u].pc = "l157"

\* C21: the native-automation backend never lets an exception out: every call
\* that has ended has returned a result (a failure result when a step failed),
\* and a thread that has left the backend does not hold the lock.
C21_NeverPropagates ==
  \A t \in ComThreads :
    /\ call.th[t].pc # "raised"
    /\ call.th[t].pc \in {"idle", "returned", "raised"} => call.lock # t

\* C22: once the upload of the temporary remote object was requested, the
\* cloud backend does not return before a delete request for it was issued,
\* whether it returns success or failure, and a failing delete does not
\* change the result.
C22_DeleteAlwaysIssued ==
  /\ call.pc = "returned" /\ call.puts > 0 => call.deletes > 0
  /\ call.pc = "returned" /\ call.deletes > 0
       => call.result = (IF call.wrote THEN "true" ELSE "false")

\* Both credential flows are configured.
BothFlows(e) == RefreshFlow(e) /\ ClientFlow(e)

\* _get_graph_token has returned to line 327 or the backend has ended.
TokenDecided == call.pc \notin {"l326", "l288"}

\* C23 (as stated): with both flows configured, the client-credentials flow
\* is tried after the refresh-token flow has yielded no token.
C23_SecondFlowTried ==
  TokenDecided /\ BothFlows(call.env) /\ call.flows # <<>> /\ ~call.token
    /\ call.result # "raise"
    => call.flows = <<"refresh", "client">>

\* C23 (amended): one flow at most is tried, the refresh-token flow whenever
\* it is configured and the client-credentials flow only when it is not; the
\* backend returns failure without any upload when the flow tried has yielded
\* no token, and goes past line 327 only with a token.
C23_OneFlowTried ==
  TokenDecided =>
    /\ call.flows = IF RefreshFlow(call.env) THEN <<"refresh">>
                     ELSE IF ClientFlow(call.env) THEN <<"client">>
                     ELSE <<>>
    /\ call.pc = "returned" /\ ~call.token
         => call.result = "false" /\ call.puts = 0
    /\ call.pc \notin {"l327", "returned", "raised"} => call.token

\* With both flows configured the refresh-token flow has yielded no token and
\* the backend has returned failure.
C23_Witness ==
  /\ call.pc = "returned" /\ BothFlows(call.env)
  /\ call.flows = <<"refresh">> /\ ~call.token /\ call.result = "false"

\* The call has ended, with a result or with an exception.
LibreEnded == call.pc \in {"returned", "raised"}

\* C24: the local office-suite backend reports success only if the process
\* exited with status zero and the expected file (input stem + .pdf) existed
\* afterwards, and then the target path holds a file; with a zero status and
\* the expected file it reports success (once the move into place, when one
\* is needed, went through); a non-zero exit, a timeout, a missing executable
\* or a missing output file yields a failure result and no exception.
C24_LibreSuccess ==
  LibreEnded =>
    /\ call.result = "true"
         => call.run = "zero" /\ call.existed /\ call.target \in call.out_files
    /\ call.run = "zero" /\ call.existed /\ call.pc = "returned"
         => call.result = "true"
    /\ call.run = "zero" /\ call.existed /\ call.target = Expected(call.word)
         => call.result = "true"
    /\ \/ call.run \in {"nonzero", "timeout", "missing"}
       \/ call.run = "zero" /\ ~call.existed
       => call.pc = "returned" /\ call.result = "false"
    /\ call.existed => call.run = "zero"

\* The process exited with zero, the expected file was there under another
\* name than the target's, and the backend moved it into place.
C24_Witness ==
  /\ call.pc = "returned" /\ call.result = "true" /\ call.run = "zero"
  /\ call.target # Expected(call.word) /\ call.target \in call.out_files

\* The listed PDFs that are on disk, in list order.
Present(pdf_files, disk) == SelectSeq(pdf_files, LAMBDA n : disk[n] # "none")

\* The pages of the PDFs of `names`, one PDF after the other.
RECURSIVE PagesInOrder(_, _)
PagesInOrder(names, disk) ==
  IF names = <<>> THEN <<>>
  ELSE PagesOf(Head(names), PageCount(disk[Head(names)]))
         \o PagesInOrder(Tail(names), disk)

\* C25: a merge that returns success returns the sum of the page counts of
\* the listed PDFs that exist on disk, and its artifact holds the pages of
\* those PDFs, and of no other, in list order.
C25_MergeTotal ==
  call.pc \in {"returned", "l225"} /\ call.result[1] =>
    /\ call.written = PagesInOrder(Present(call.pdf_files, call.disk), call.disk)
    /\ call.result[2] = Len(call.written)
    /\ call.result[2] = SumPages(call.pdf_files, call.disk)

\* A merge of two PDFs, one of them missing, has returned the pages of the
\* other.
C25_Witness ==
  /\ call.pc = "returned" /\ call.result[1] /\ Len(call.pdf_files) = 2
  /\ call.disk[call.pdf_files[1]] = "none" /\ call.disk[call.pdf_files[2]] # "none"
  /\ call.result[2] = PageCount(call.disk[call.pdf_files[2]])

\* C26: merge_pdfs never ends with an exception: when the import, the reading
\* of an input or the writing of the artifact has raised, it returns failure
\* with a page count of zero, whatever pages it had added before, no artifact
\* is written, and the run that called it ends in error.
C26_MergeNeverRaises ==
  /\ call.pc \in {"l407", "l410", "returned", "l225"}
  /\ call.pc \in {"returned", "l225"} =>
       /\ call.raised # "none" <=> ~call.result[1]
       /\ ~call.result[1] => call.result[2] = 0 /\ call.written = <<>>
  /\ call.pc = "l225" /\ ~call.result[1] => call.stage = "error"
  /\ call.pc = "l225" /\ call.result[1] => call.stage # "error"

\* The write has raised after pages had been added, merge_pdfs has returned
\* (False, 0) and its caller has ended in error.
C26_Witness ==
  /\ call.pc = "l225" /\ call.raised = "write" /\ call.total_pages > 0
  /\ call.result = <<FALSE, 0>> /\ call.stage = "error"

\* C27: the destination changes only by the rename of a completely written
\* .part sibling, which then is gone; it never holds a partial copy; and when
\* copy_file_with_retry returns normally the destination holds the whole
\* source content and no sibling remains.
C27_AtomicDestination ==
  /\ [](call.dst # "partial")
  /\ [](call.pc = "returned" => call.dst = "full" /\ call.part = "none")
  /\ [][call.dst' # call.dst
          => call.part = "full" /\ call.dst' = "full" /\ call.part' = "none"
             /\ call.pc \in {"l117", "l138"}]_vars

\* The function has returned normally after a failed attempt whose sibling
\* could not be removed.
C27_Witness ==
  /\ call.pc = "returned" /\ call.copies > 1 /\ call.unlink_failed
  /\ call.dst = "full" /\ call.part = "none"

\* The atomic attempts and the fallback of one call, counted: at most
\* max_attempts calls of copy2, a further one only after a PermissionError,
\* one manual copy at most and only after the last attempt, and the
\* PermissionError raised exactly when the manual copy or its rename failed.
RetryDiscipline ==
  /\ call.copies <= max_attempts
  /\ call.copies = IF call.pc = "l116" THEN call.attempt ELSE call.attempt + 1
  /\ call.copies > 1 \/ call.manual > 0 => call.last_error = "perm"
  /\ call.manual <= 1
  /\ call.manual = 1 => call.copies = max_attempts
  /\ call.pc = "raised" =>
       (call.result = "perm" <=> call.manual = 1)

\* The call has ended.
CopyEnded == call.pc \in {"returned", "raised"}

\* C28 (as stated): the retry discipline holds, the sibling is gone after
\* each failed attempt and when the PermissionError is raised, and the call
\* ends.
C28_NoSiblingLeft ==
  /\ RetryDiscipline
  /\ call.pc \in {"l116", "l131"} /\ call.copies > 0 => call.part = "none"
  /\ call.pc = "raised" /\ call.result = "perm" => call.part = "none"

\* C28 (amended): the retry discipline holds; after a failed attempt and
\* when the PermissionError is raised the sibling is gone unless its removal
\* has failed; and the call ends.
C28_BoundedRetries ==
  /\ [](/\ RetryDiscipline
        /\ call.pc \in {"l116", "l131"} /\ call.copies > 0 /\ ~call.unlink_failed
             => call.part = "none"
        /\ call.pc = "raised" /\ call.result = "perm" /\ ~call.unlink_failed
             => call.part = "none")
  /\ <>CopyEnded

\* Every atomic attempt and the fallback have failed, the PermissionError is
\* raised, and the sibling is still there because it could not be removed.
C28_Witness ==
  /\ call.pc = "raised" /\ call.result = "perm" /\ call.manual = 1
  /\ call.copies = max_attempts /\ call.unlink_failed /\ call.part # "none"

\* The name matches the range pattern (label, number, dash, number) and,
\* elsewhere, the bare pattern (label, number).
RangeKey(f) == NumVal(f[Search("range", f, 1)])
BareKey(f) == NumVal(f[Search("bare", f, 1)])
MatchesBoth(f) == Search("range", f, 1) # 0 /\ Search("bare", f, 1) # 0

\* C29: a filename that matches both the range pattern (label, number, dash,
\* number) and the bare label + number pattern gets the number the range
\* pattern captures as its key, when that number lies in 1..1000.
C29_RangePriority ==
  call.pc = "returned" /\ MatchesBoth(call.filename)
    /\ InPageRange(RangeKey(call.filename))
    => call.key = RangeKey(call.filename)

\* A name whose range pattern and bare pattern capture different numbers has
\* been resolved.
C29_Witness ==
  /\ call.pc = "returned" /\ MatchesBoth(call.filename)
  /\ InPageRange(RangeKey(call.filename)) /\ InPageRange(BareKey(call.filename))
  /\ RangeKey(call.filename) # BareKey(call.filename)

\* C30: in the resolved list no document with an unresolved key (0) comes
\* before a document with a resolved key, and the resolved documents are in
\* ascending order of their keys.
C30_UnresolvedLast ==
  call.pc = "returned" =>
    \A i, j \in 1..Len(call.result) :
      i < j =>
        LET a == extract_page_number(call.result[i])
            b == extract_page_number(call.result[j]) IN
        /\ a = 0 => b = 0
        /\ a # 0 /\ b # 0 => a <= b

\* A list given with an unresolved document first and resolved documents in
\* descending order behind it has been resolved, all three being kept.
C30_Witness ==
  /\ call.pc = "returned" /\ Len(call.files) = 3 /\ Len(call.result) = 3
  /\ extract_page_number(call.files[1]) = 0
  /\ extract_page_number(call.files[2]) > extract_page_number(call.files[3])
  /\ extract_page_number(call.files[3]) > 0

\* The dedup key of a file name: (page_num, logical name), lines 98-100.
DedupKey(name) == <<extract_page_number(name), _logical_filename(name)>>

\* The k-th file is the first of the list with its dedup key.
FirstOfKey(files, k) ==
  \A j \in 1..(k - 1) : DedupKey(files[j]) # DedupKey(files[k])

\* C31: of the documents of the list that share a dedup key (order key,
\* logical name) exactly the first encountered is in the resolved list: the
\* resolved list holds no two documents with the same key, every document it
\* holds is the first of the list with its key, and the first document of
\* every key (a document with a unique key included) is in it.
C31_FirstSurvives ==
  call.pc = "returned" =>
    /\ \A i, j \in 1..Len(call.result) :
         i # j => DedupKey(call.result[i]) # DedupKey(call.result[j])
    /\ \A i \in 1..Len(call.result) :
         \E k \in 1..Len(call.files) :
           call.files[k] = call.result[i] /\ FirstOfKey(call.files, k)
    /\ \A k \in 1..Len(call.files) :
         FirstOfKey(call.files, k) =>
           \E i \in 1..Len(call.result) : call.result[i] = call.files[k]

\* Two files of different names and the same dedup key, and a third with a
\* key of its own between them, have been resolved: the second of the two is
\* gone, the other two are kept.
C31_Witness ==
  /\ call.pc = "returned" /\ Len(call.files) = 3 /\ Len(call.result) = 2
  /\ call.files[1] # call.files[3]
  /\ DedupKey(call.files[1]) = DedupKey(call.files[3])
  /\ DedupKey(call.files[2]) # DedupKey(call.files[1])
  /\ \E i \in 1..2 : call.result[i] = call.files[1]
  /\ \A i \in 1..2 : call.result[i] # call.files[3]

\* The file names of the scenario: 005_Report, the title page and
\* 003-010_Section, each with the extension.
Report == <<"#5", "_", "x">> \o Extension
Title == <<"T">> \o Extension
Section == <<"#3", "-", "#10", "_", "x">> \o Extension

\* The three file names of the scenario, in some order, have been resolved.
ScenarioResolved ==
  /\ call.pc = "returned" /\ Len(call.files) = 3
  /\ {call.files[k] : k \in 1..3} = {Report, Title, Section}

\* The order keys of the files of the list given.
KeysGiven == {<<call.files[k], extract_page_number(call.files[k])>> : k \in 1..Len(call.files)}

\* C32 as stated: 005_Report, the title page and 003-010_Section resolve to
\* the order keys 5, 1 and 3, and the resolved order is Title, Section,
\* Report.
C32_ScenarioKeys ==
  ScenarioResolved =>
    /\ KeysGiven = {<<Report, 5>>, <<Title, 1>>, <<Section, 3>>}
    /\ call.result = <<Title, Section, Report>>

\* C32, amended: 005_Report resolves to no order key (0: a numeric prefix is
\* not a page number), the title page to 1 and 003-010_Section to 3, and the
\* resolved order is Title, Section, Report, in whatever order the three are
\* given.
C32_ScenarioOrder ==
  ScenarioResolved =>
    /\ KeysGiven = {<<Report, 0>>, <<Title, 1>>, <<Section, 3>>}
    /\ call.result = <<Title, Section, Report>>

\* The scenario given with the report first has been resolved.
C32_Witness ==
  /\ ScenarioResolved /\ call.files[1] = Report
  /\ Len(call.result) = 3 /\ call.result[3] = Report

\* C33: no batch folder has received the documents of two archives, and no
\* file copied for the user has been written a second time.
C33_FreshBatchFolder ==
  /\ \A b \in DOMAIN call.batches : Cardinality(call.batches[b]) <= 1
  /\ call.overwritten = {}

\* C34: after /start the user has no collected files.
C34_StartClears ==
  call.cmd = "start" => Get(call.user_data, "collected_word_files", <<>>) = <<>>

\* C35: at most one conversion worker is ever started for a job.
C35_OneWorkerPerJob ==
  \A j \in JobIds : Cardinality(RunsOf(j)) <= 1

\* C36: in every call of the native backend the export calls made are the
\* first one, two or three of the fixed order (positional
\* ExportAsFixedFormat, ExportAsFixedFormat by keyword, SaveAs), none is made
\* after one that returned, and the call returns True only if one of them
\* returned and the document was then closed without saving.
C36_ExportFallback ==
  \A t \in ComThreads :
    LET th == call.th[t] IN
    /\ th.tried \in {<<>>, <<1>>, <<1, 2>>, <<1, 2, 3>>}
    /\ th.export # 0 => th.tried # <<>> /\ th.tried[Len(th.tried)] = th.export
    /\ th.result = "true" => th.export \in 1..3 /\ th.closed

\* A call has returned True after the first two export calls raised and the
\* third went through.
C36_Witness ==
  \E t \in ComThreads :
    /\ call.th[t].pc = "returned" /\ call.th[t].result = "true"
    /\ call.th[t].tried = <<1, 2, 3>> /\ call.th[t].export = 3

\* The names of the documents of `docs` whose conversion did not succeed,
\* in order.
RECURSIVE Failures(_, _)
Failures(docs, results) ==
  IF docs = <<>> \/ results = <<>> THEN <<>>
  ELSE (IF Head(results) THEN <<>> ELSE <<Name(Head(docs))>>)
       \o Failures(Tail(docs), Tail(results))

\* C37: once the conversion loop of a run has finished, every document of the
\* run's list is in exactly one of the success list and the failed list
\* (successes + failures = total), and a document is among the successes only
\* if convert_word_to_pdf returned True for it and its output PDF exists.
C37_EveryDocumentCounted ==
  call.pc = "after" =>
    /\ Len(call.pdf_files) + Len(call.failed) = Len(call.file_paths)
    /\ Len(call.results) = Len(call.file_paths)
    /\ call.pdf_files = Successes(call.file_paths, call.results)
    /\ call.failed = Failures(call.file_paths, call.results)
    /\ \A k \in 1..Len(call.file_paths) :
         call.results[k] =>
           /\ call.reported[k]
           /\ call.pdf_dir[Stem(call.file_paths[k])] # "none"

\* A loop over two documents of one stem has finished with one success and
\* one failure, the failure being a document whose PDF path held a file
\* although no backend reported success for it.
C37_Witness ==
  /\ call.pc = "after" /\ Len(call.file_paths) = 2
  /\ Stem(call.file_paths[1]) = Stem(call.file_paths[2])
  /\ call.reported = <<TRUE, FALSE>> /\ call.results = <<TRUE, FALSE>>

\* C38: within one run two different documents are never converted to the
\* same intermediate PDF path: the file at the PDF path recorded for a
\* successfully converted document is that document's own output, during the
\* loop and when merge reads it, and no document is counted as converted on
\* the strength of a file another document's conversion wrote.
C38_OwnIntermediatePdf ==
  \A t \in Threads :
    LET w == workers[t] IN
    /\ \A k, m \in 1..Len(w.results) :
         (w.results[k] /\ w.results[m] /\ w.attempted[k] # w.attempted[m]) =>
           Stem(w.attempted[k]) # Stem(w.attempted[m])
    /\ \A k \in 1..Len(w.results) :
         w.results[k] => pdf_dir[w.job][Stem(w.attempted[k])] = w.attempted[k]

\* C39: for a job of the registry, a confirm starts a worker and a download
\* returns the artifact only when the caller is the job's owner; the request
\* of any other caller is answered with an error without content, starts no
\* worker and changes no job record, no worker and no file.
C39_OwnerOnly ==
  [][(resp'.op \in {"convert", "download"} /\ resp'.job \in DOMAIN jobs) =>
       LET owner == resp'.user = jobs[resp'.job].user_id IN
       /\ (Started # {} \/ resp'.body # <<>> \/ resp'.code = 200) => owner
       /\ ~owner =>
            /\ resp'.code \in {400, 401, 403, 404}
            /\ resp'.body = <<>>
            /\ Started = {}
            /\ jobs' = jobs /\ workers' = workers /\ unit' = unit
            /\ pdf_dir' = pdf_dir /\ tmp_dirs' = tmp_dirs]_vars

\* A logged-in user who is not the owner has just asked for the artifact of
\* a finished job and was refused.
C39_Witness ==
  /\ resp.op = "download" /\ resp.job \in DOMAIN jobs
  /\ resp.user \in Users /\ resp.user # jobs[resp.job].user_id
  /\ jobs[resp.job].done /\ jobs[resp.job].pdf_path # "none"
  /\ resp.code = 403 /\ resp.body = <<>>

\* C40: split_pdf_by_size terminates for every PDF and every size limit: the
\* call returns, also after a written part was over the limit and the part
\* size was halved for a retry.
C40_SplitTerminates == <>(call.pc = "returned")

====
